---- MODULE Spec2Model ----
(***************************************************************************)
(* A model of the segmented-capture and event-assembly engine of           *)
(* detector/motion_detector.py: the MotionDetector recording controller    *)
(* (frame loop and command thread), the SegmentRecorder retention sweep   *)
(* and health monitor, and shutdown.  Time is the wall clock in whole      *)
(* seconds.  Motion percentages are in tenths of a percent (0.5 % is 5).   *)
(***************************************************************************)
EXTENDS Integers, Sequences, FiniteSets, TLC

VARIABLES
    now,                          \* time.time()
    \* MotionDetector
    is_recording,
    recording_type,
    motion_detection_enabled,
    recording_buffer_start_time,
    recording_start_time,
    last_motion_time,
    consecutive_motion_frames,
    significant_motion_started,
    stats,                        \* motion_videos_saved, manual_videos_saved
    recording_lock,               \* holder of self.recording_lock, or "free"
    \* SegmentRecorder
    cleanup_paused,
    segments,                     \* the seg_*.ts files of segments_dir
    lock,                         \* holder of SegmentRecorder.lock, or "free"
    sweep,                        \* the cleanup thread: position and locals
    \* output directory
    clips,                        \* files in motion_dir / manual_dir
    \* threads of control that call into MotionDetector
    pc,                           \* position of each thread
    loc,                          \* locals of the call each thread is in
    ev,                           \* what the last step did (history only)
    hist,                         \* the frames the loop has read (history only)
    \* the process: shutdown, the frame source, the capture process
    stop_event,                   \* MotionDetector.stop_event
    cap,                          \* MotionDetector.cap, the frame source
    is_running,                   \* SegmentRecorder.is_running
    recorder_stop_event,          \* SegmentRecorder.stop_event
    ffmpeg_process,               \* SegmentRecorder.ffmpeg_process
    monitor,                      \* the _monitor_ffmpeg thread: position, locals,
                                  \* and the time of the last launch
    use_segments                  \* SegmentRecorder.use_segments: segment files,
                                  \* or one growing file (direct mode)

vars == <<now, is_recording, recording_type, motion_detection_enabled,
          recording_buffer_start_time, recording_start_time, last_motion_time,
          consecutive_motion_frames, significant_motion_started, stats,
          recording_lock, cleanup_paused, segments, lock, sweep, clips,
          pc, loc, ev, hist, stop_event, cap, is_running,
          recorder_stop_event, ffmpeg_process, monitor, use_segments>>

procVars == <<stop_event, cap, is_running, recorder_stop_event,
              ffmpeg_process, monitor, use_segments>>

detectorVars == <<is_recording, recording_type, motion_detection_enabled,
                  recording_buffer_start_time, recording_start_time,
                  last_motion_time, consecutive_motion_frames,
                  significant_motion_started, stats, recording_lock,
                  clips, pc, loc>>

sessionVars == <<is_recording, recording_type, recording_buffer_start_time,
                 recording_start_time>>

motionVars == <<last_motion_time, consecutive_motion_frames,
                significant_motion_started>>

-----------------------------------------------------------------------------
(* Configuration and program constants *)

DEFAULT_BUFFER_SECONDS == 5
DEFAULT_MIN_MOTION_FRAMES == 3
DEFAULT_MOTION_AREA_PERCENT == 5      \* 0.5 %, in tenths of a percent
DEFAULT_EXTEND_MOTION_PERCENT == 2    \* 0.2 %, in tenths of a percent
DEFAULT_SEGMENT_DURATION == 1

buffer_seconds == DEFAULT_BUFFER_SECONDS
min_motion_frames == DEFAULT_MIN_MOTION_FRAMES
motion_area_percent == DEFAULT_MOTION_AREA_PERCENT
extend_motion_percent == DEFAULT_EXTEND_MOTION_PERCENT
segment_duration == DEFAULT_SEGMENT_DURATION

MinValidBytes == 1000     \* seg_size > 1000
StartMaxAge == 10         \* _check_segments_fresh(max_age=10.0)
StopStaleSlack == 5       \* newest_segment_time < recording_start_time - 5
CleanupSleepFactor == 5   \* time.sleep(segment_duration * 5)
max_reconnect_attempts == 10   \* run: max_reconnect_attempts = 10
max_restarts == 20        \* _monitor_ffmpeg: max_restarts = 20
StaleSeconds == 15        \* if stale_seconds > 15
MinStaleFiles == 3        \* if len(segments) < 3: continue
StartupSleep == 3         \* time.sleep(3) after a launch that succeeded
MonitorSleep == 5         \* time.sleep(5) at the head of the monitor loop

StartTime == 10           \* time.time() when the frame loop starts

\* run(): segment_recorder.start(), then time.sleep(buffer_seconds + 2)
\* before the frame loop: the time of the first launch
LaunchTime == StartTime - (buffer_seconds + 2)

(* Bounds of the model.  post_motion_seconds and max_segments are options  *)
(* of the configuration (5 and 300 by default), scaled down.               *)
post_motion_seconds == 1
max_segments == 2
MaxTime == 12             \* the clock stops here in Spec
MaxTimeFrames == 14       \* the clock stops here in SpecFrames
MaxTimeSweep == 16        \* the clock stops here in SpecSweep
MaxFiles == 1             \* segment files the capture process writes
MaxFilesSweep == 4        \* segment files it writes in SpecSweep
MaxConsecutive == 3       \* cap on consecutive_motion_frames
MaxFilesQuery == 3        \* segment files on disk in SpecQuery
MaxTimeStart == 11        \* the clock stops here in SpecStart
MaxTimeEvents == 13       \* the clock stops here in SpecEvents
MaxTimeMonitor == 26      \* the clock stops here in SpecMonitor
MaxTimeStatus == 14       \* the clock stops here in SpecStatus
MaxTimeFeed == 12         \* the clock stops here in SpecFeed
MaxTimeDegraded == 15     \* the clock stops here in SpecDegraded
MaxFilesDegraded == 2     \* segment files on disk in SpecDegraded
MaxTimeDirect == 15       \* the clock stops here in SpecDirect
MaxFilesMerge == 2        \* segment files on disk in SpecMerge
MaxLenMerge == 3          \* length of the list given to merge_segments
MaxTimeListing == 15
MotionUntil == 10         \* the last time a frame shows motion in SpecQuiet
MaxTimeQuiet == 12
MaxFilesListing == 3
MaxTimeRearm == 33        \* the clock stops here in SpecRearm
MaxOldFiles == 3          \* segment files on disk when SpecMonitor begins
MaxFilesMonitor == 4      \* segment files on disk in SpecMonitor

None == -1                \* Python None in a timestamp field
NONE == "none"            \* RecordingType.NONE
MOTION == "motion"        \* RecordingType.MOTION
MANUAL == "manual"        \* RecordingType.MANUAL

Threads == {"frame", "cmd"}
SegSizes == {MinValidBytes, MinValidBytes + 1}
MotionPercents == {0, extend_motion_percent, extend_motion_percent + 1,
                   motion_area_percent, motion_area_percent + 1}

-----------------------------------------------------------------------------
(* Helpers *)

Max(S) == CHOOSE x \in S : \A y \in S : y <= x

NoLocals == [rec_type |-> NONE, ret |-> "idle", current_time |-> None,
             was |-> NONE, wake |-> None, start_time |-> None,
             end_time |-> None, segs |-> <<>>, merged |-> FALSE,
             merge_failed |-> FALSE, kept |-> "none", frame_time |-> None,
             reconnect_attempts |-> 0, time_range |-> <<>>,
             merge |-> <<>>, list_file |-> "absent", merge_exit |-> "none"]

\* The process lives: the main thread has neither died of an exception nor
\* returned from run() (the command thread is a daemon thread).
Running == pc["frame"] \notin {"crashed", "exited"}

\* The history of the last step: what was done, and by which thread.
\* Steps that only move a thread on are recorded as "step".
Loud == {"start_reject_active", "start_reject_stale", "start_done",
         "stop_noop", "stop_raise", "stop_done", "manual_start_refused",
         "manual_stop_refused", "event_start", "event_end", "post_roll_stop",
         "pause", "resume", "sweep_remove", "sweep_done", "query",
         "disable_stop", "crash_detected", "stale_detected", "stale_skipped",
         "launch_ok", "launch_failed", "monitor_ended", "recorder_stopped",
         "cap_released", "status", "read_failed", "feed_lost",
         "reconnected", "reconnect_failed", "merge_call",
         "merge_returned", "start_raise"}
Ev(op, by) ==
    ev' = IF op \in Loud THEN [op |-> op, by |-> by]
          ELSE [op |-> "step", by |-> "none"]

storeVars == <<cleanup_paused, segments, lock, sweep>>

\* Position t moves to label l with locals r.
Goto(t, l, r) ==
    /\ pc' = [pc EXCEPT ![t] = l]
    /\ loc' = [loc EXCEPT ![t] = r]

\* Return from the call t is in to the caller's continuation.
Return(t) ==
    Goto(t, loc[t].ret, [NoLocals EXCEPT !.frame_time = loc[t].frame_time])

\* An exception leaves the call: the frame loop has no handler (the main
\* thread ends and the process with it); monitor_control_file catches it.
Raise(t) == Goto(t, IF t = "frame" THEN "crashed" ELSE "idle", NoLocals)

-----------------------------------------------------------------------------
(* SegmentRecorder: the segment files and the queries over them.  A file   *)
(* is [name, mtime, size]; the name is the strftime timestamp of the       *)
(* segment, so name order is time order.                                   *)

SegNames(S) == {s.name : s \in S}
FileOf(n) == CHOOSE s \in segments : s.name = n
Exists(n) == \E s \in segments : s.name = n

RECURSIVE SortedNames(_)
SortedNames(S) ==
    IF S = {} THEN <<>>
    ELSE LET m == CHOOSE x \in S : \A y \in S : x <= y
         IN  <<m>> \o SortedNames(S \ {m})

\* sorted(glob.glob("seg_*.ts"))
GetSortedSegments == SortedNames(SegNames(segments))

\* list.sort(key=getmtime) is stable: insert x after the entries whose
\* mtime is not greater.
RECURSIVE InsertByMtime(_, _)
InsertByMtime(sorted, x) ==
    IF sorted = <<>> THEN <<x>>
    ELSE IF FileOf(Head(sorted)).mtime <= FileOf(x).mtime
         THEN <<Head(sorted)>> \o InsertByMtime(Tail(sorted), x)
         ELSE <<x>> \o sorted

RECURSIVE SortByMtime(_)
SortByMtime(list) ==
    IF list = <<>> THEN <<>>
    ELSE InsertByMtime(SortByMtime(SubSeq(list, 1, Len(list) - 1)),
                       list[Len(list)])

\* A range test without the margin of two segment durations
InRangeNoMargin(s, start_time, end_time) ==
    /\ start_time # None
    /\ s.mtime >= start_time
    /\ s.mtime <= end_time
    /\ s.size > MinValidBytes

\* The range test of get_segments_in_time_range for one file.  With
\* start_time None the comparison raises TypeError, which the loop's
\* except turns into "skip this file".
InRange(s, start_time, end_time) ==
    LET margin == segment_duration * 2 IN
    /\ start_time # None
    /\ s.mtime >= start_time - margin
    /\ s.mtime <= end_time + margin
    /\ s.size > MinValidBytes

\* direct_output_file, temp_recording_<time of the launch>.ts; the launch
\* also stamps the recorder's recording_start_time with that time
DirectOutputFile == monitor.last_segment_time

\* direct mode: [direct_output_file] when it exists and getsize > 1000
DirectSegments ==
    IF Exists(DirectOutputFile) /\ FileOf(DirectOutputFile).size > MinValidBytes
    THEN <<DirectOutputFile>>
    ELSE <<>>

GetSegmentsInTimeRange(start_time, end_time) ==
    IF ~use_segments THEN DirectSegments
    ELSE SortByMtime(SelectSeq(GetSortedSegments,
                               LAMBDA n : InRange(FileOf(n), start_time,
                                                  end_time)))

\* max(os.path.getmtime(s) for s in segments): FileNotFoundError when a
\* returned file is gone
NewestSegmentRaises(segs) == \E i \in 1..Len(segs) : ~Exists(segs[i])
NewestSegmentTime(segs) == Max({FileOf(segs[i]).mtime : i \in 1..Len(segs)})

\* A freshness test that accepts a newest segment exactly max_age old
CheckSegmentsFreshInclusive(max_age) ==
    IF segments = {} THEN FALSE
    ELSE now - Max({s.mtime : s \in segments}) <= max_age

\* _check_segments_fresh(max_age): the age of direct_output_file in direct
\* mode, of the newest seg_*.ts file in segment mode
CheckSegmentsFresh(max_age) ==
    IF ~use_segments
    THEN /\ Exists(DirectOutputFile)
         /\ now - FileOf(DirectOutputFile).mtime < max_age
    ELSE IF segments = {} THEN FALSE
    ELSE now - Max({s.mtime : s \in segments}) < max_age

\* A sweep that keeps one file fewer than the bound
ToDeleteOneMore(listing) ==
    IF Len(listing) >= max_segments
    THEN SubSeq(listing, 1, Len(listing) - max_segments + 1)
    ELSE <<>>

\* segments[:-self.max_segments] when len(segments) > max_segments
ToDelete(listing) ==
    IF Len(listing) > max_segments
    THEN SubSeq(listing, 1, Len(listing) - max_segments)
    ELSE <<>>

pause_cleanup == cleanup_paused' = TRUE
resume_cleanup == cleanup_paused' = FALSE

-----------------------------------------------------------------------------
(* The capture process and the clock *)

Write(size, max_files) ==
    /\ Running
    /\ ffmpeg_process = "alive"
    /\ ~Exists(now)
    /\ Cardinality(segments) < max_files
    /\ segments' = segments \cup {[name |-> now, mtime |-> now, size |-> size]}
    /\ Ev("write", "ffmpeg")
    /\ UNCHANGED <<now, hist, procVars, detectorVars, cleanup_paused, lock,
                   sweep>>

FfmpegWrite == \E size \in SegSizes : Write(size, MaxFiles)

Advance(limit) ==
    /\ Running
    /\ now < limit
    /\ now' = now + 1
    /\ Ev("tick", "clock")
    /\ UNCHANGED <<hist, procVars, detectorVars, cleanup_paused, segments,
                   lock, sweep>>

Tick == Advance(MaxTime)

-----------------------------------------------------------------------------
(* SegmentRecorder._cleanup_old_segments: the retention sweep thread *)

SweepSleep == [pc |-> "sleep", listing |-> <<>>, to_delete |-> <<>>,
               wake |-> now + segment_duration * CleanupSleepFactor]

\* if not self.cleanup_paused:
SweepCheck ==
    /\ Running
    /\ ~recorder_stop_event
    /\ sweep.pc = "check"
    /\ sweep' = IF ~cleanup_paused THEN [sweep EXCEPT !.pc = "list"]
                ELSE SweepSleep
    /\ Ev("sweep_check", "sweep")
    /\ UNCHANGED <<now, hist, procVars, detectorVars, cleanup_paused, segments,
                   lock>>

\* with self.lock: segments = self._get_sorted_segments(); to_delete = ...
SweepList ==
    /\ Running
    /\ sweep.pc = "list"
    /\ lock = "free"
    /\ lock' = "sweep"
    /\ sweep' = [sweep EXCEPT !.pc = "remove",
                              !.listing = GetSortedSegments,
                              !.to_delete = ToDelete(GetSortedSegments)]
    /\ Ev("sweep_list", "sweep")
    /\ UNCHANGED <<now, hist, procVars, detectorVars, cleanup_paused,
                   segments>>

\* for seg in to_delete: os.remove(seg)  (FileNotFoundError is passed over)
SweepRemove ==
    /\ Running
    /\ sweep.pc = "remove"
    /\ sweep.to_delete # <<>>
    /\ segments' = {s \in segments : s.name # Head(sweep.to_delete)}
    /\ sweep' = [sweep EXCEPT !.to_delete = Tail(sweep.to_delete)]
    /\ Ev("sweep_remove", "sweep")
    /\ UNCHANGED <<now, hist, procVars, detectorVars, cleanup_paused, lock>>

\* the end of the with block, then time.sleep(self.segment_duration * 5)
SweepDone ==
    /\ Running
    /\ sweep.pc = "remove"
    /\ sweep.to_delete = <<>>
    /\ lock' = "free"
    /\ sweep' = [SweepSleep EXCEPT !.listing = sweep.listing]
    /\ Ev("sweep_done", "sweep")
    /\ UNCHANGED <<now, hist, procVars, detectorVars, cleanup_paused,
                   segments>>

SweepWake ==
    /\ Running
    /\ sweep.pc = "sleep"
    /\ now >= sweep.wake
    /\ sweep' = [pc |-> "check", listing |-> <<>>, to_delete |-> <<>>,
                 wake |-> None]
    /\ Ev("sweep_wake", "sweep")
    /\ UNCHANGED <<now, hist, procVars, detectorVars, cleanup_paused, segments,
                   lock>>

-----------------------------------------------------------------------------
(* MotionDetector.start_recording(rec_type), called by thread t *)

\* with self.recording_lock: the two early returns, then time.time()
StartEnter(t) ==
    /\ Running
    /\ pc[t] = "start_enter"
    /\ recording_lock = "free"
    /\ IF is_recording
       THEN /\ Return(t)
            /\ Ev("start_reject_active", t)
            /\ UNCHANGED recording_lock
       ELSE IF ~CheckSegmentsFresh(StartMaxAge)
       THEN /\ Return(t)
            /\ Ev("start_reject_stale", t)
            /\ UNCHANGED recording_lock
       ELSE /\ recording_lock' = t
            /\ Goto(t, "start_set_recording",
                    [loc[t] EXCEPT !.current_time = now])
            /\ Ev("start_accept", t)
    /\ UNCHANGED <<now, hist, procVars, sessionVars, motion_detection_enabled,
                   motionVars, stats, clips, storeVars>>

\* The entry of start_recording in segment mode with the two steps of
\* _check_segments_fresh apart: segments = glob.glob("seg_*.ts") ...
FreshList(t) ==
    /\ Running
    /\ use_segments
    /\ pc[t] = "start_enter"
    /\ recording_lock = "free"
    /\ IF is_recording
       THEN /\ Return(t)
            /\ Ev("start_reject_active", t)
            /\ UNCHANGED recording_lock
       ELSE /\ recording_lock' = t
            /\ Goto(t, "start_fresh_stat",
                    [loc[t] EXCEPT !.segs = GetSortedSegments])
            /\ Ev("start_list", t)
    /\ UNCHANGED <<now, hist, procVars, sessionVars, motion_detection_enabled,
                   motionVars, stats, clips, storeVars>>

\* ... then newest = max(segments, key=os.path.getmtime) and
\* age = time.time() - os.path.getmtime(newest): os.path.getmtime raises
\* FileNotFoundError for a listed file that is gone, nothing catches it in
\* start_recording, and the with block releases the lock on the way out
FreshStat(t) ==
    /\ Running
    /\ pc[t] = "start_fresh_stat"
    /\ IF loc[t].segs = <<>>
       THEN /\ Return(t)
            /\ Ev("start_reject_stale", t)
       ELSE IF NewestSegmentRaises(loc[t].segs)
       THEN /\ Raise(t)
            /\ Ev("start_raise", t)
       ELSE IF ~(now - NewestSegmentTime(loc[t].segs) < StartMaxAge)
       THEN /\ Return(t)
            /\ Ev("start_reject_stale", t)
       ELSE /\ Goto(t, "start_set_recording",
                    [loc[t] EXCEPT !.current_time = now, !.segs = <<>>])
            /\ Ev("start_accept", t)
    /\ recording_lock' = IF pc'[t] = "start_set_recording" THEN t ELSE "free"
    /\ UNCHANGED <<now, hist, procVars, sessionVars, motion_detection_enabled,
                   motionVars, stats, clips, storeVars>>

\* self.is_recording = True
StartSetRecording(t) ==
    /\ Running
    /\ pc[t] = "start_set_recording"
    /\ is_recording' = TRUE
    /\ Goto(t, "start_set_type", loc[t])
    /\ Ev("start_set_recording", t)
    /\ UNCHANGED <<now, hist, procVars, recording_type,
                   recording_buffer_start_time, recording_start_time,
                   motion_detection_enabled, motionVars, stats, recording_lock,
                   clips, storeVars>>

\* self.recording_type = rec_type
StartSetType(t) ==
    /\ Running
    /\ pc[t] = "start_set_type"
    /\ recording_type' = loc[t].rec_type
    /\ Goto(t, "start_pause", loc[t])
    /\ Ev("start_set_type", t)
    /\ UNCHANGED <<now, hist, procVars, is_recording,
                   recording_buffer_start_time, recording_start_time,
                   motion_detection_enabled, motionVars, stats, recording_lock,
                   clips, storeVars>>

\* self.segment_recorder.pause_cleanup()
StartPause(t) ==
    /\ Running
    /\ pc[t] = "start_pause"
    /\ pause_cleanup
    /\ Goto(t, "start_set_buffer", loc[t])
    /\ Ev("start_pause", t)
    /\ UNCHANGED <<now, hist, procVars, sessionVars, motion_detection_enabled,
                   motionVars, stats, recording_lock, clips, segments, lock,
                   sweep>>

\* A start that gives a MOTION session no pre-roll
BufferStartNoPreRoll(rec_type, current_time) == current_time

\* The pre-roll: current_time - buffer_seconds for MOTION, else current_time
BufferStart(rec_type, current_time) ==
    IF rec_type = MOTION THEN current_time - buffer_seconds
    ELSE current_time

\* self.recording_buffer_start_time = ...
StartSetBuffer(t) ==
    /\ Running
    /\ pc[t] = "start_set_buffer"
    /\ recording_buffer_start_time' =
           BufferStart(loc[t].rec_type, loc[t].current_time)
    /\ Goto(t, "start_set_start", loc[t])
    /\ Ev("start_set_buffer", t)
    /\ UNCHANGED <<now, hist, procVars, is_recording, recording_type,
                   recording_start_time, motion_detection_enabled, motionVars,
                   stats, recording_lock, clips, storeVars>>

\* self.recording_start_time = current_time, and the lock is released
StartSetStart(t) ==
    /\ Running
    /\ pc[t] = "start_set_start"
    /\ recording_start_time' = loc[t].current_time
    /\ recording_lock' = "free"
    /\ Return(t)
    /\ Ev("start_done", t)
    /\ UNCHANGED <<now, hist, procVars, is_recording, recording_type,
                   recording_buffer_start_time, motion_detection_enabled,
                   motionVars, stats, clips, storeVars>>

-----------------------------------------------------------------------------
(* MotionDetector._reset_recording_state, run by thread t without the lock *)

ResetRecording(t) ==
    /\ Running
    /\ pc[t] = "reset_recording"
    /\ is_recording' = FALSE
    /\ Goto(t, "reset_type", loc[t])
    /\ Ev("reset_recording", t)
    /\ UNCHANGED <<now, hist, procVars, recording_type,
                   recording_buffer_start_time, recording_start_time,
                   motion_detection_enabled, motionVars, stats, recording_lock,
                   clips, storeVars>>

ResetType(t) ==
    /\ Running
    /\ pc[t] = "reset_type"
    /\ recording_type' = NONE
    /\ Goto(t, "reset_start", loc[t])
    /\ Ev("reset_type", t)
    /\ UNCHANGED <<now, hist, procVars, is_recording,
                   recording_buffer_start_time, recording_start_time,
                   motion_detection_enabled, motionVars, stats, recording_lock,
                   clips, storeVars>>

ResetStart(t) ==
    /\ Running
    /\ pc[t] = "reset_start"
    /\ recording_start_time' = None
    /\ Goto(t, "reset_buffer", loc[t])
    /\ Ev("reset_start", t)
    /\ UNCHANGED <<now, hist, procVars, is_recording, recording_type,
                   recording_buffer_start_time, motion_detection_enabled,
                   motionVars, stats, recording_lock, clips, storeVars>>

ResetBuffer(t) ==
    /\ Running
    /\ pc[t] = "reset_buffer"
    /\ recording_buffer_start_time' = None
    /\ Goto(t, "reset_resume", loc[t])
    /\ Ev("reset_buffer", t)
    /\ UNCHANGED <<now, hist, procVars, is_recording, recording_type,
                   recording_start_time, motion_detection_enabled, motionVars,
                   stats, recording_lock, clips, storeVars>>

\* self.segment_recorder.resume_cleanup(), and stop_recording returns
ResetResume(t) ==
    /\ Running
    /\ pc[t] = "reset_resume"
    /\ resume_cleanup
    /\ Return(t)
    /\ Ev("stop_done", t)
    /\ UNCHANGED <<now, hist, procVars, sessionVars, motion_detection_enabled,
                   motionVars, stats, recording_lock, clips, segments, lock,
                   sweep>>

-----------------------------------------------------------------------------
(* MotionDetector.stop_recording, called by thread t *)

wait_time == segment_duration + 1

\* stop_recording without its "if not self.is_recording: return"
StopEnterUnguarded(t) ==
    /\ Running
    /\ pc[t] = "stop_enter"
    /\ recording_lock = "free"
    /\ recording_lock' = t
    /\ Goto(t, "stop_flip", loc[t])
    /\ Ev("stop_found", t)
    /\ UNCHANGED <<now, hist, procVars, sessionVars, motion_detection_enabled,
                   motionVars, stats, clips, storeVars>>

\* with self.recording_lock: if not self.is_recording: return
StopEnter(t) ==
    /\ Running
    /\ pc[t] = "stop_enter"
    /\ recording_lock = "free"
    /\ IF ~is_recording
       THEN /\ Return(t)
            /\ Ev("stop_noop", t)
            /\ UNCHANGED recording_lock
       ELSE /\ recording_lock' = t
            /\ Goto(t, "stop_flip", loc[t])
            /\ Ev("stop_found", t)
    /\ UNCHANGED <<now, hist, procVars, sessionVars, motion_detection_enabled,
                   motionVars, stats, clips, storeVars>>

\* stop_recording doing the rest of its work inside "with recording_lock"
StopFlipKeepsLock(t) ==
    /\ Running
    /\ pc[t] = "stop_flip"
    /\ is_recording' = FALSE
    /\ Goto(t, "stop_sleep", [loc[t] EXCEPT !.was = recording_type,
                                            !.wake = now + wait_time])
    /\ Ev("stop_flip", t)
    /\ UNCHANGED <<now, hist, procVars, recording_type,
                   recording_buffer_start_time, recording_start_time,
                   motion_detection_enabled, motionVars, stats, recording_lock,
                   clips, storeVars>>

\* stop_recording without its "self.is_recording = False" under the lock
StopFlipKeepsRecording(t) ==
    /\ Running
    /\ pc[t] = "stop_flip"
    /\ recording_lock' = "free"
    /\ Goto(t, "stop_sleep", [loc[t] EXCEPT !.was = recording_type,
                                            !.wake = now + wait_time])
    /\ Ev("stop_flip", t)
    /\ UNCHANGED <<now, hist, procVars, sessionVars, motion_detection_enabled,
                   motionVars, stats, clips, storeVars>>

\* was_recording_type = self.recording_type; self.is_recording = False;
\* the lock is released and time.sleep(wait_time) begins
StopFlip(t) ==
    /\ Running
    /\ pc[t] = "stop_flip"
    /\ is_recording' = FALSE
    /\ recording_lock' = "free"
    /\ Goto(t, "stop_sleep", [loc[t] EXCEPT !.was = recording_type,
                                            !.wake = now + wait_time])
    /\ Ev("stop_flip", t)
    /\ UNCHANGED <<now, hist, procVars, recording_type,
                   recording_buffer_start_time, recording_start_time,
                   motion_detection_enabled, motionVars, stats, clips,
                   storeVars>>

\* the sleep ends; recording_end_time = time.time()
StopWake(t) ==
    /\ Running
    /\ pc[t] = "stop_sleep"
    /\ now >= loc[t].wake
    /\ Goto(t, "stop_query", [loc[t] EXCEPT !.end_time = now, !.wake = None])
    /\ Ev("stop_wake", t)
    /\ UNCHANGED <<now, hist, procVars, sessionVars, motion_detection_enabled,
                   motionVars, stats, recording_lock, clips, storeVars>>

\* segments = get_segments_in_time_range(self.recording_buffer_start_time,
\*                                       recording_end_time)
StopQuery(t) ==
    /\ Running
    /\ pc[t] = "stop_query"
    /\ lock = "free"
    /\ Goto(t, "stop_expected",
            [loc[t] EXCEPT !.segs = GetSegmentsInTimeRange(
                                        recording_buffer_start_time,
                                        loc[t].end_time)])
    /\ Ev("stop_query", t)
    /\ UNCHANGED <<now, hist, procVars, sessionVars, motion_detection_enabled,
                   motionVars, stats, recording_lock, clips, storeVars>>

\* expected_duration = recording_end_time - self.recording_buffer_start_time
\* (TypeError when the field is None); if not segments: reset and return
StopExpected(t) ==
    /\ Running
    /\ pc[t] = "stop_expected"
    /\ IF recording_buffer_start_time = None
       THEN Raise(t) /\ Ev("stop_raise", t)
       ELSE IF loc[t].segs = <<>>
       THEN Goto(t, "reset_recording", loc[t]) /\ Ev("stop_no_segments", t)
       ELSE Goto(t, "stop_fresh", loc[t]) /\ Ev("stop_expected", t)
    /\ UNCHANGED <<now, hist, procVars, sessionVars, motion_detection_enabled,
                   motionVars, stats, recording_lock, clips, storeVars>>

\* stats['motion_videos_saved'] += 1 for MOTION, else manual_videos_saved
CountSaved(was) ==
    IF was = MOTION
    THEN [stats EXCEPT !.motion_videos_saved = @ + 1]
    ELSE [stats EXCEPT !.manual_videos_saved = @ + 1]

\* the freshness check against recording_start_time - 5, then the file
\* name, the prefix and the saved counter
StopFresh(t) ==
    /\ Running
    /\ pc[t] = "stop_fresh"
    /\ IF NewestSegmentRaises(loc[t].segs) \/ recording_start_time = None
       THEN Raise(t) /\ Ev("stop_raise", t) /\ UNCHANGED stats
       ELSE IF NewestSegmentTime(loc[t].segs)
                   < recording_start_time - StopStaleSlack
       THEN /\ Goto(t, "reset_recording", loc[t])
            /\ Ev("stop_stale", t)
            /\ UNCHANGED stats
       ELSE /\ stats' = CountSaved(loc[t].was)
            /\ Goto(t, "stop_merge", loc[t])
            /\ Ev("stop_fresh", t)
    /\ UNCHANGED <<now, hist, procVars, sessionVars, motion_detection_enabled,
                   motionVars, recording_lock, clips, storeVars>>

\* A filter that keeps every existing file, whatever its size
ValidSegmentsAnySize(segs) ==
    SelectSeq(segs, LAMBDA n : Exists(n))

\* VideoMerger.merge_segments: only existing files above the minimum size
\* are merged
ValidSegments(segs) ==
    SelectSeq(segs, LAMBDA n : Exists(n) /\ FileOf(n).size > MinValidBytes)

\* direct mode with one file: time_range = (start_offset, duration), read
\* from recording_buffer_start_time as it is now
CutsDirectFile(segs) == ~use_segments /\ Len(segs) = 1

TimeRange(end_time) ==
    LET ffmpeg_start == monitor.last_segment_time
        diff == recording_buffer_start_time - ffmpeg_start
        start_offset == IF diff > 0 THEN diff ELSE 0
        duration == end_time - recording_buffer_start_time
    IN  <<start_offset, duration>>

\* time_range for direct mode (TypeError when recording_buffer_start_time is
\* None), then merge_segments(segments, temp_filepath, crop_params,
\* time_range): the merge process succeeds or fails; on failure the
\* temporary file is removed
StopMerge(t) ==
    /\ Running
    /\ pc[t] = "stop_merge"
    /\ IF CutsDirectFile(loc[t].segs) /\ recording_buffer_start_time = None
       THEN Raise(t) /\ Ev("stop_raise", t)
       ELSE LET time_range == IF CutsDirectFile(loc[t].segs)
                              THEN TimeRange(loc[t].end_time)
                              ELSE <<>>
            IN  \E ffmpeg_ok \in BOOLEAN :
                  IF ffmpeg_ok /\ ValidSegments(loc[t].segs) # <<>>
                  THEN /\ Goto(t, "stop_finalize",
                               [loc[t] EXCEPT !.merged = TRUE,
                                              !.time_range = time_range])
                       /\ Ev("merge_ok", t)
                  ELSE /\ Goto(t, "reset_recording",
                               [loc[t] EXCEPT !.merge_failed = TRUE,
                                              !.time_range = time_range])
                       /\ Ev("merge_failed", t)
    /\ UNCHANGED <<now, hist, procVars, sessionVars, motion_detection_enabled,
                   motionVars, stats, recording_lock, clips, storeVars>>

\* merge_segments(segments, output_path, ...) as a whole: False before any
\* merge process is run when the list or its valid part is empty; else the
\* process runs over the valid part and the call returns
\* returncode == 0 and os.path.exists(output_path) (an exception of the
\* run, caught, returns False like a non-zero exit)
MergeSegments(segs, returncode, output_exists) ==
    LET valid_segments == ValidSegments(segs)
    IN  IF segs = <<>> \/ valid_segments = <<>>
        THEN [invoked |-> FALSE, inputs |-> <<>>, result |-> FALSE,
              returncode |-> returncode, output_exists |-> output_exists]
        ELSE [invoked |-> TRUE, inputs |-> valid_segments,
              result |-> (returncode = 0 /\ output_exists),
              returncode |-> returncode, output_exists |-> output_exists]

\* A call of merge_segments on its own, on the list the caller holds
MergeCall(returncode, output_exists) ==
    /\ Running
    /\ pc["cmd"] = "idle"
    /\ loc' = [loc EXCEPT
                 !["cmd"].merge = MergeSegments(loc["cmd"].segs, returncode,
                                                output_exists)]
    /\ Ev("merge_call", "client")
    /\ UNCHANGED <<now, hist, procVars, sessionVars, motion_detection_enabled,
                   motionVars, stats, recording_lock, clips, pc, storeVars>>

\* The concat branch of merge_segments, step by step.  list_file is the
\* file output_path + ".concat.txt"; merge_exit names the way the try block
\* was left.  The branch is entered when the valid part of the list is not
\* empty and the call is not the one-file cut of direct mode.
ConcatEnter ==
    /\ Running
    /\ pc["cmd"] = "idle"
    /\ ValidSegments(loc["cmd"].segs) # <<>>
    /\ ~CutsDirectFile(ValidSegments(loc["cmd"].segs))
    /\ Goto("cmd", "merge_write",
            [loc["cmd"] EXCEPT !.list_file = "absent", !.merge_exit = "none"])
    /\ Ev("merge_enter", "client")
    /\ UNCHANGED <<now, hist, procVars, sessionVars, motion_detection_enabled,
                   motionVars, stats, recording_lock, clips, storeVars>>

\* with open(list_file, 'w') as f: f.write(...) for every valid segment.
\* open may raise before the file is there, a write may raise after it is;
\* either exception is caught by except Exception (return False), and the
\* finally block follows
WriteOutcomes == {"written", "open_error", "write_error"}

ConcatWrite ==
    /\ Running
    /\ pc["cmd"] = "merge_write"
    /\ \E w \in WriteOutcomes :
          Goto("cmd", IF w = "written" THEN "merge_run" ELSE "merge_finally",
               [loc["cmd"] EXCEPT
                  !.list_file = IF w = "open_error" THEN "absent"
                                ELSE "present",
                  !.merge_exit = IF w = "written" THEN "none" ELSE w])
    /\ Ev("merge_write", "client")
    /\ UNCHANGED <<now, hist, procVars, sessionVars, motion_detection_enabled,
                   motionVars, stats, recording_lock, clips, storeVars>>

\* subprocess.run(cmd, capture_output=True, timeout=300): the process
\* exits (success = returncode == 0 and os.path.exists(output_path)), or
\* TimeoutExpired or another exception is raised and caught
RunOutcomes == {"exited", "timeout", "run_error"}

ConcatRun ==
    /\ Running
    /\ pc["cmd"] = "merge_run"
    /\ \E r \in RunOutcomes, returncode \in {0, 1}, output_exists \in BOOLEAN :
          Goto("cmd", "merge_finally",
               [loc["cmd"] EXCEPT
                  !.merge_exit =
                      IF r # "exited" THEN r
                      ELSE IF returncode = 0 /\ output_exists
                           THEN "success" ELSE "failed"])
    /\ Ev("merge_run", "client")
    /\ UNCHANGED <<now, hist, procVars, sessionVars, motion_detection_enabled,
                   motionVars, stats, recording_lock, clips, storeVars>>

\* A finally block that removes the list only after a run that exited
ConcatFinallyAfterExit ==
    /\ Running
    /\ pc["cmd"] = "merge_finally"
    /\ Goto("cmd", "idle",
            [loc["cmd"] EXCEPT
               !.list_file = IF loc["cmd"].merge_exit \in {"success", "failed"}
                             THEN "absent" ELSE @])
    /\ Ev("merge_returned", "client")
    /\ UNCHANGED <<now, hist, procVars, sessionVars, motion_detection_enabled,
                   motionVars, stats, recording_lock, clips, storeVars>>

\* finally: if os.path.exists(list_file): os.remove(list_file), on every
\* way out of the try block; then the call returns (True on "success",
\* False otherwise).  Removing a file the call has just written is taken
\* to succeed.
ConcatFinally ==
    /\ Running
    /\ pc["cmd"] = "merge_finally"
    /\ Goto("cmd", "idle", [loc["cmd"] EXCEPT !.list_file = "absent"])
    /\ Ev("merge_returned", "client")
    /\ UNCHANGED <<now, hist, procVars, sessionVars, motion_detection_enabled,
                   motionVars, stats, recording_lock, clips, storeVars>>

Prefix(was) == IF was = MOTION THEN "bird" ELSE "manual"

\* What becomes of the merged file: renamed to the name with the duration,
\* or left under its _temp name because get_video_duration returned 0.0 or
\* because os.rename raised
FinalizeOutcomes == {"duration", "probe_failed", "rename_failed"}

\* final_filename = f"{prefix}_{timestamp}_{duration_str}.mp4", or the
\* temp_filepath f"{prefix}_{timestamp}_temp.mp4"
KeptName(was, outcome) ==
    <<Prefix(was), IF outcome = "duration" THEN "duration" ELSE "temp">>

\* get_video_duration, then os.rename to the name with the duration; the
\* clip keeps its _temp name when the probe returns 0 or the rename fails
StopFinalize(t) ==
    /\ Running
    /\ pc[t] = "stop_finalize"
    /\ \E outcome \in FinalizeOutcomes :
          LET name == KeptName(loc[t].was, outcome)
          IN  /\ clips' = [n \in DOMAIN clips |->
                             IF n = name THEN clips[n] + 1 ELSE clips[n]]
              /\ Goto(t, "reset_recording", [loc[t] EXCEPT !.kept = outcome])
    /\ Ev("clip_saved", t)
    /\ UNCHANGED <<now, hist, procVars, sessionVars, motion_detection_enabled,
                   motionVars, stats, recording_lock, storeVars>>

-----------------------------------------------------------------------------
(* MotionDetector.process_frame, run by the frame loop *)

\* An end-of-event test that fires at the bound instead of strictly past it
EventEndsAtBound(started, frame_time, last_motion) ==
    started /\ frame_time - last_motion >= post_motion_seconds

\* The end-of-event test of process_frame for a frame read at frame_time:
\* time_since_last_motion > post_motion_seconds while the event is active
EventEnds(started, frame_time, last_motion) ==
    started /\ frame_time - last_motion > post_motion_seconds

\* A linger refresh that only significant frames perform
LingerRefreshSignificantOnly(motion_percent, started, current_time, last_motion) ==
    IF motion_percent >= motion_area_percent /\ started
    THEN current_time ELSE last_motion

\* if any_motion and self.significant_motion_started:
\*     self.last_motion_time = current_time
LingerRefresh(motion_percent, started, current_time, last_motion) ==
    IF motion_percent >= extend_motion_percent /\ started
    THEN current_time ELSE last_motion

\* A debounce counter that a non-significant frame leaves as it is
CountFramesNoReset(significant_motion, consecutive) ==
    IF significant_motion THEN consecutive + 1 ELSE consecutive

\* if significant_motion: self.consecutive_motion_frames += 1
\* else: self.consecutive_motion_frames = 0
CountFrames(significant_motion, consecutive) ==
    IF significant_motion THEN consecutive + 1 ELSE 0

\* A frame loop that calls start_recording at every frame of an event
CallsStartWheneverReached(starts, reached) ==
    reached /\ motion_detection_enabled /\ ~is_recording

\* inside "if not self.significant_motion_started":
\* if self.motion_detection_enabled and not self.is_recording
CallsStart(starts, reached) ==
    starts /\ motion_detection_enabled /\ ~is_recording

\* One frame: detect_motion gives motion_percent; the linger refresh, the
\* debounce and the start of a MOTION session, then the end-of-event test.
\* The motion state is private to the frame loop, so a frame that does not
\* call start_recording reads the shared session state at one place only
\* (the test before stop_recording) and is one step.  The frame was read
\* from an open source, and run() has put reconnect_attempts back to 0.
ProcessFrame(motion_percent) ==
    LET t == "frame"
        current_time == now
        significant_motion == motion_percent >= motion_area_percent
        refreshed == LingerRefresh(motion_percent, significant_motion_started,
                                   current_time, last_motion_time)
        count == CountFrames(significant_motion, consecutive_motion_frames)
        reached == significant_motion /\ count >= min_motion_frames
        starts == reached /\ ~significant_motion_started
        last_motion == IF reached THEN current_time ELSE refreshed
        started == significant_motion_started \/ starts
        ends == EventEnds(started, current_time, last_motion)
    IN  /\ Running
        /\ ~stop_event
        /\ cap = "open"
        /\ pc[t] = "idle"
        /\ significant_motion => consecutive_motion_frames < MaxConsecutive
        /\ consecutive_motion_frames' = count
        /\ last_motion_time' = last_motion
        /\ IF CallsStart(starts, reached)
           THEN /\ significant_motion_started' = started
                /\ Goto(t, "start_enter",
                        [NoLocals EXCEPT !.rec_type = MOTION,
                                         !.ret = "frame_end",
                                         !.frame_time = current_time])
                /\ Ev("event_start_call", t)
           ELSE /\ significant_motion_started' = (started /\ ~ends)
                /\ IF ends /\ is_recording /\ recording_type = MOTION
                   THEN /\ Goto(t, "stop_enter", NoLocals)
                        /\ Ev("post_roll_stop", t)
                   ELSE /\ Goto(t, "idle",
                                [loc[t] EXCEPT !.reconnect_attempts = 0])
                        /\ Ev(IF starts THEN "event_start"
                              ELSE IF ends THEN "event_end" ELSE "frame", t)
        /\ UNCHANGED <<now, procVars, sessionVars, motion_detection_enabled,
                       stats, recording_lock, clips, storeVars>>

\* The end-of-event test of the frame that called start_recording, after
\* the call has returned.
ProcessFrameEnd ==
    LET t == "frame"
        ends == EventEnds(significant_motion_started, loc[t].frame_time,
                          last_motion_time)
    IN  /\ Running
        /\ pc[t] = "frame_end"
        /\ significant_motion_started' = (significant_motion_started /\ ~ends)
        /\ IF ends /\ is_recording /\ recording_type = MOTION
           THEN /\ Goto(t, "stop_enter", NoLocals)
                /\ Ev("post_roll_stop", t)
           ELSE /\ Goto(t, "idle", NoLocals)
                /\ Ev(IF ends THEN "event_end" ELSE "frame_done", t)
        /\ UNCHANGED <<now, hist, procVars, sessionVars,
                       motion_detection_enabled, last_motion_time,
                       consecutive_motion_frames, stats, recording_lock, clips,
                       storeVars>>

-----------------------------------------------------------------------------
(* The commands of monitor_control_file, run by the command thread *)

\* MOTION_ON
enable_motion_detection ==
    /\ Running
    /\ ~stop_event
    /\ pc["cmd"] = "idle"
    /\ motion_detection_enabled' = TRUE
    /\ Ev("enable", "cmd")
    /\ UNCHANGED <<now, hist, procVars, sessionVars, motionVars, stats,
                   recording_lock, clips, pc, loc, storeVars>>

\* MOTION_OFF: self.motion_detection_enabled = False
disable_motion_detection ==
    /\ Running
    /\ ~stop_event
    /\ pc["cmd"] = "idle"
    /\ motion_detection_enabled' = FALSE
    /\ Goto("cmd", "disable_check", NoLocals)
    /\ Ev("disable", "cmd")
    /\ UNCHANGED <<now, hist, procVars, sessionVars, motionVars, stats,
                   recording_lock, clips, storeVars>>

\* A MOTION_OFF that stops a session of either kind
DisableCheckAnyKind ==
    /\ Running
    /\ pc["cmd"] = "disable_check"
    /\ IF is_recording
       THEN Goto("cmd", "stop_enter", NoLocals) /\ Ev("disable_stop", "cmd")
       ELSE Goto("cmd", "idle", NoLocals) /\ Ev("disable_done", "cmd")
    /\ UNCHANGED <<now, hist, procVars, sessionVars, motion_detection_enabled,
                   motionVars, stats, recording_lock, clips, storeVars>>

\* if self.is_recording and self.recording_type == MOTION: stop_recording()
DisableCheck ==
    /\ Running
    /\ pc["cmd"] = "disable_check"
    /\ IF is_recording /\ recording_type = MOTION
       THEN Goto("cmd", "stop_enter", NoLocals) /\ Ev("disable_stop", "cmd")
       ELSE Goto("cmd", "idle", NoLocals) /\ Ev("disable_done", "cmd")
    /\ UNCHANGED <<now, hist, procVars, sessionVars, motion_detection_enabled,
                   motionVars, stats, recording_lock, clips, storeVars>>

\* RECORD_START
start_manual_recording ==
    /\ Running
    /\ ~stop_event
    /\ pc["cmd"] = "idle"
    /\ IF is_recording
       THEN UNCHANGED <<pc, loc>> /\ Ev("manual_start_refused", "cmd")
       ELSE /\ Goto("cmd", "start_enter", [NoLocals EXCEPT !.rec_type = MANUAL])
            /\ Ev("manual_start", "cmd")
    /\ UNCHANGED <<now, hist, procVars, sessionVars, motion_detection_enabled,
                   motionVars, stats, recording_lock, clips, storeVars>>

\* A RECORD_STOP that stops a session of either kind
stop_manual_recordingAnyKind ==
    /\ Running
    /\ ~stop_event
    /\ pc["cmd"] = "idle"
    /\ IF ~is_recording
       THEN UNCHANGED <<pc, loc>> /\ Ev("manual_stop_refused", "cmd")
       ELSE Goto("cmd", "stop_enter", NoLocals) /\ Ev("manual_stop", "cmd")
    /\ UNCHANGED <<now, hist, procVars, sessionVars, motion_detection_enabled,
                   motionVars, stats, recording_lock, clips, storeVars>>

\* RECORD_STOP
stop_manual_recording ==
    /\ Running
    /\ ~stop_event
    /\ pc["cmd"] = "idle"
    /\ IF ~is_recording \/ recording_type # MANUAL
       THEN UNCHANGED <<pc, loc>> /\ Ev("manual_stop_refused", "cmd")
       ELSE Goto("cmd", "stop_enter", NoLocals) /\ Ev("manual_stop", "cmd")
    /\ UNCHANGED <<now, hist, procVars, sessionVars, motion_detection_enabled,
                   motionVars, stats, recording_lock, clips, storeVars>>

-----------------------------------------------------------------------------
(* Callers of the retention switch, for the recorder taken on its own *)

PauseCleanup ==
    /\ Running
    /\ pause_cleanup
    /\ Ev("pause", "client")
    /\ UNCHANGED <<now, hist, procVars, detectorVars, segments, lock, sweep>>

ResumeCleanup ==
    /\ Running
    /\ resume_cleanup
    /\ Ev("resume", "client")
    /\ UNCHANGED <<now, hist, procVars, detectorVars, segments, lock, sweep>>

-----------------------------------------------------------------------------
(* The specifications *)

ClipNames == {"bird", "manual"} \X {"duration", "temp"}

NoFrames == [time |-> None, motion_percent |-> 0, parity |-> 0,
             recent |-> [i \in 1..min_motion_frames |-> FALSE],
             any_time |-> None]

\* The record of one more frame read at the current time.
Seen(motion_percent) ==
    [time |-> now,
     motion_percent |-> motion_percent,
     parity |-> 1 - hist.parity,
     recent |-> Tail(hist.recent) \o <<motion_percent >= 5>>,
     any_time |-> IF motion_percent >= 2 THEN now ELSE hist.any_time]

\* The process while the frame loop runs: SegmentRecorder.start() has
\* launched the capture process and the monitor thread (which begins with
\* a sleep), connect() has opened the frame source, nobody has asked the
\* detector to stop.
ProcInit ==
    /\ stop_event = FALSE
    /\ cap = "open"
    /\ is_running = TRUE
    /\ recorder_stop_event = FALSE
    /\ ffmpeg_process = "alive"
    /\ monitor = [pc |-> "loop", restart_count |-> 0,
                  last_segment_time |-> LaunchTime]
    /\ use_segments = TRUE

\* MotionDetector.__init__ and SegmentRecorder.__init__; auto_start_motion
\* may have enabled detection before the frame loop starts.
Init ==
    /\ now = StartTime
    /\ is_recording = FALSE
    /\ recording_type = NONE
    /\ motion_detection_enabled \in BOOLEAN
    /\ recording_buffer_start_time = None
    /\ recording_start_time = None
    /\ last_motion_time = 0
    /\ consecutive_motion_frames = 0
    /\ significant_motion_started = FALSE
    /\ stats = [motion_videos_saved |-> 0, manual_videos_saved |-> 0]
    /\ recording_lock = "free"
    /\ cleanup_paused = FALSE
    /\ segments = {}
    /\ lock = "free"
    /\ sweep = [pc |-> "check", listing |-> <<>>, to_delete |-> <<>>,
                wake |-> None]
    /\ clips = [n \in ClipNames |-> 0]
    /\ pc = [t \in Threads |-> "idle"]
    /\ loc = [t \in Threads |-> NoLocals]
    /\ ev = [op |-> "init", by |-> "init"]
    /\ hist = NoFrames
    /\ ProcInit

StartRecording(t) ==
    \/ StartEnter(t)
    \/ StartSetRecording(t)
    \/ StartSetType(t)
    \/ StartPause(t)
    \/ StartSetBuffer(t)
    \/ StartSetStart(t)

StopRecording(t) ==
    \/ StopEnter(t)
    \/ StopFlip(t)
    \/ StopWake(t)
    \/ StopQuery(t)
    \/ StopExpected(t)
    \/ StopFresh(t)
    \/ StopMerge(t)
    \/ StopFinalize(t)
    \/ ResetRecording(t)
    \/ ResetType(t)
    \/ ResetStart(t)
    \/ ResetBuffer(t)
    \/ ResetResume(t)

FrameLoop ==
    \/ \E motion_percent \in MotionPercents :
          ProcessFrame(motion_percent) /\ UNCHANGED hist
    \/ ProcessFrameEnd
    \/ StartRecording("frame")
    \/ StopRecording("frame")

CommandThread ==
    \/ enable_motion_detection
    \/ disable_motion_detection
    \/ DisableCheck
    \/ start_manual_recording
    \/ stop_manual_recording
    \/ StartRecording("cmd")
    \/ StopRecording("cmd")

\* The recording controller: the frame loop and the command thread.
Next ==
    \/ FrameLoop
    \/ CommandThread
    \/ FfmpegWrite
    \/ Tick

Spec == Init /\ [][Next]_vars

\* The frame loop on its own, with the frames it reads recorded.  A manual
\* session may have been started by RECORD_START while run() was waiting
\* for the buffer to fill.
InitFrames ==
    /\ now = StartTime
    /\ motion_detection_enabled \in BOOLEAN
    /\ \E manual \in BOOLEAN :
          /\ is_recording = manual
          /\ recording_type = IF manual THEN MANUAL ELSE NONE
          /\ recording_buffer_start_time = IF manual THEN StartTime ELSE None
          /\ recording_start_time = IF manual THEN StartTime ELSE None
          /\ cleanup_paused = manual
          /\ segments = IF manual
                        THEN {[name |-> StartTime, mtime |-> StartTime,
                               size |-> MinValidBytes + 1]}
                        ELSE {}
    /\ last_motion_time = 0
    /\ consecutive_motion_frames = 0
    /\ significant_motion_started = FALSE
    /\ stats = [motion_videos_saved |-> 0, manual_videos_saved |-> 0]
    /\ recording_lock = "free"
    /\ lock = "free"
    /\ sweep = [pc |-> "check", listing |-> <<>>, to_delete |-> <<>>,
                wake |-> None]
    /\ clips = [n \in ClipNames |-> 0]
    /\ pc = [t \in Threads |-> "idle"]
    /\ loc = [t \in Threads |-> NoLocals]
    /\ ev = [op |-> "init", by |-> "init"]
    /\ hist = NoFrames
    /\ ProcInit

TickFrames == Advance(MaxTimeFrames)

NextFrames ==
    \/ \E motion_percent \in MotionPercents :
          ProcessFrame(motion_percent) /\ hist' = Seen(motion_percent)
    \/ ProcessFrameEnd
    \/ StartRecording("frame")
    \/ StopRecording("frame")
    \/ FfmpegWrite
    \/ TickFrames

SpecFrames == InitFrames /\ [][NextFrames]_vars

\* The segment recorder on its own: the capture process, the retention
\* sweep, and callers that pause and resume it.
FfmpegWriteSweep == \E size \in SegSizes : Write(size, MaxFilesSweep)

TickSweep == Advance(MaxTimeSweep)

NextSweep ==
    \/ SweepCheck
    \/ SweepList
    \/ SweepRemove
    \/ SweepDone
    \/ SweepWake
    \/ PauseCleanup
    \/ ResumeCleanup
    \/ FfmpegWriteSweep
    \/ TickSweep

SpecSweep == Init /\ [][NextSweep]_vars

\* SegmentRecorder.get_segments_in_time_range(start_time, end_time) called
\* by a client; the arguments and the list returned are kept in the
\* caller's locals.
Query(start_time, end_time) ==
    /\ Running
    /\ lock = "free"
    /\ loc' = [loc EXCEPT !["cmd"] =
                  [NoLocals EXCEPT !.start_time = start_time,
                                   !.end_time = end_time,
                                   !.segs = GetSegmentsInTimeRange(start_time,
                                                                   end_time)]]
    /\ Ev("query", "client")
    /\ UNCHANGED <<now, hist, procVars, sessionVars, motion_detection_enabled,
                   motionVars, stats, recording_lock, clips, pc, storeVars>>

\* The segment query on its own, over every directory of up to
\* MaxFilesQuery files: the name order of the files is the order of their
\* indices, their mtimes and sizes are arbitrary.
QueryMtimes == (StartTime - 4)..(StartTime + 4)
QueryStarts == {StartTime - 1, StartTime}
QueryEnds == {StartTime, StartTime + 1}

InitQuery ==
    /\ now = StartTime + 1
    /\ is_recording = FALSE
    /\ recording_type = NONE
    /\ motion_detection_enabled = FALSE
    /\ recording_buffer_start_time = None
    /\ recording_start_time = None
    /\ last_motion_time = 0
    /\ consecutive_motion_frames = 0
    /\ significant_motion_started = FALSE
    /\ stats = [motion_videos_saved |-> 0, manual_videos_saved |-> 0]
    /\ recording_lock = "free"
    /\ cleanup_paused = FALSE
    /\ \E k \in 0..MaxFilesQuery :
          \E f \in [1..k -> QueryMtimes \X SegSizes] :
             segments = {[name |-> i, mtime |-> f[i][1], size |-> f[i][2]] :
                            i \in 1..k}
    /\ lock = "free"
    /\ sweep = [pc |-> "check", listing |-> <<>>, to_delete |-> <<>>,
                wake |-> None]
    /\ clips = [n \in ClipNames |-> 0]
    /\ pc = [t \in Threads |-> "idle"]
    /\ loc = [t \in Threads |-> NoLocals]
    /\ ev = [op |-> "init", by |-> "init"]
    /\ hist = NoFrames
    /\ ProcInit

NextQuery ==
    \E start_time \in QueryStarts, end_time \in QueryEnds :
       Query(start_time, end_time)

SpecQuery == InitQuery /\ [][NextQuery]_vars

\* RECORD_START commands against a store whose capture process may have
\* stopped producing: the directory is empty or holds one segment of any
\* age up to just past the staleness bound.
InitStart ==
    /\ now = StartTime
    /\ is_recording = FALSE
    /\ recording_type = NONE
    /\ motion_detection_enabled = FALSE
    /\ recording_buffer_start_time = None
    /\ recording_start_time = None
    /\ last_motion_time = 0
    /\ consecutive_motion_frames = 0
    /\ significant_motion_started = FALSE
    /\ stats = [motion_videos_saved |-> 0, manual_videos_saved |-> 0]
    /\ recording_lock = "free"
    /\ cleanup_paused = FALSE
    /\ \/ segments = {}
       \/ \E mtime \in (StartTime - StartMaxAge - 1)..(StartTime - 1),
             size \in SegSizes :
             segments = {[name |-> mtime, mtime |-> mtime, size |-> size]}
    /\ lock = "free"
    /\ sweep = [pc |-> "check", listing |-> <<>>, to_delete |-> <<>>,
                wake |-> None]
    /\ clips = [n \in ClipNames |-> 0]
    /\ pc = [t \in Threads |-> "idle"]
    /\ loc = [t \in Threads |-> NoLocals]
    /\ ev = [op |-> "init", by |-> "init"]
    /\ hist = NoFrames
    /\ ProcInit

TickStart == Advance(MaxTimeStart)

NextStart ==
    \/ start_manual_recording
    \/ StartRecording("cmd")
    \/ FfmpegWrite
    \/ TickStart

SpecStart == InitStart /\ [][NextStart]_vars

\* RECORD_START and RECORD_STOP commands beside the capture process and
\* the retention sweep, the freshness check of start_recording taken in
\* its two steps.
StartRecordingListed(t) ==
    \/ FreshList(t)
    \/ FreshStat(t)
    \/ StartSetRecording(t)
    \/ StartSetType(t)
    \/ StartPause(t)
    \/ StartSetBuffer(t)
    \/ StartSetStart(t)

\* the capture process writes segments of a valid size
FfmpegWriteListing == Write(MinValidBytes + 1, MaxFilesListing)

TickListing == Advance(MaxTimeListing)

NextListing ==
    \/ start_manual_recording
    \/ StartRecordingListed("cmd")
    \/ stop_manual_recording
    \/ StopRecording("cmd")
    \/ SweepCheck
    \/ SweepList
    \/ SweepRemove
    \/ SweepDone
    \/ SweepWake
    \/ FfmpegWriteListing
    \/ TickListing

SpecListing == Init /\ [][NextListing]_vars

-----------------------------------------------------------------------------
(* SegmentRecorder._monitor_ffmpeg: the health monitor thread.  Its sleeps *)
(* are the points where the other threads, the capture process and the     *)
(* clock move; their lengths play no part in what it decides.              *)

\* The capture process exits on its own (the feed is lost, it crashes).
FfmpegExit ==
    /\ Running
    /\ ffmpeg_process = "alive"
    /\ ffmpeg_process' = "exited"
    /\ Ev("ffmpeg_exit", "ffmpeg")
    /\ UNCHANGED <<now, hist, use_segments, stop_event, cap, is_running, recorder_stop_event,
                   monitor, detectorVars, storeVars>>

\* A monitor that stops the detector when it gives up
MonitorLoopStopsDetector ==
    /\ Running
    /\ monitor.pc = "loop"
    /\ IF ~recorder_stop_event /\ monitor.restart_count < max_restarts
       THEN /\ monitor' = [monitor EXCEPT !.pc = "sleep"]
            /\ Ev("monitor", "monitor")
            /\ UNCHANGED stop_event
       ELSE /\ monitor' = [monitor EXCEPT !.pc = "ended"]
            /\ Ev("monitor_ended", "monitor")
            /\ stop_event' = TRUE
    /\ UNCHANGED <<now, hist, use_segments, cap, is_running,
                   recorder_stop_event, ffmpeg_process, detectorVars,
                   storeVars>>

\* while not self.stop_event.is_set() and restart_count <= max_restarts
MonitorLoopOneMore ==
    /\ Running
    /\ monitor.pc = "loop"
    /\ IF ~recorder_stop_event /\ monitor.restart_count <= max_restarts
       THEN monitor' = [monitor EXCEPT !.pc = "sleep"] /\ Ev("monitor", "monitor")
       ELSE /\ monitor' = [monitor EXCEPT !.pc = "ended"]
            /\ Ev("monitor_ended", "monitor")
    /\ UNCHANGED <<now, hist, use_segments, stop_event, cap, is_running, recorder_stop_event,
                   ffmpeg_process, detectorVars, storeVars>>

\* while not self.stop_event.is_set() and restart_count < max_restarts;
\* after the loop: "Giving up" when the budget is spent
MonitorLoop ==
    /\ Running
    /\ monitor.pc = "loop"
    /\ IF ~recorder_stop_event /\ monitor.restart_count < max_restarts
       THEN monitor' = [monitor EXCEPT !.pc = "sleep"] /\ Ev("monitor", "monitor")
       ELSE /\ monitor' = [monitor EXCEPT !.pc = "ended"]
            /\ Ev("monitor_ended", "monitor")
    /\ UNCHANGED <<now, hist, use_segments, stop_event, cap, is_running, recorder_stop_event,
                   ffmpeg_process, detectorVars, storeVars>>

\* time.sleep(5); if self.stop_event.is_set(): break; then the test of the
\* process: None or exited counts one restart, alive goes on to staleness
MonitorWake ==
    /\ Running
    /\ monitor.pc = "sleep"
    /\ IF recorder_stop_event
       THEN /\ monitor' = [monitor EXCEPT !.pc = "ended"]
            /\ Ev("monitor_ended", "monitor")
       ELSE IF ffmpeg_process # "alive"
       THEN /\ monitor' = [monitor EXCEPT
                              !.pc = "crash_restart",
                              !.restart_count = monitor.restart_count + 1]
            /\ Ev("crash_detected", "monitor")
       ELSE /\ monitor' = [monitor EXCEPT !.pc = "stale_check"]
            /\ Ev("monitor", "monitor")
    /\ UNCHANGED <<now, hist, use_segments, stop_event, cap, is_running, recorder_stop_event,
                   ffmpeg_process, detectorVars, storeVars>>

\* self._start_ffmpeg() inside try/except: Popen gives a new process and
\* last_segment_time is set to the time of the launch, or Popen raises and
\* both stay what they were
Launch(ok) ==
    /\ ffmpeg_process' = IF ok THEN "alive" ELSE ffmpeg_process
    /\ monitor' = [monitor EXCEPT
                     !.pc = "loop",
                     !.last_segment_time = IF ok THEN now ELSE @]
    /\ Ev(IF ok THEN "launch_ok" ELSE "launch_failed", "monitor")

\* time.sleep(2); try: self._start_ffmpeg() ... ; continue
MonitorCrashRestart ==
    /\ Running
    /\ monitor.pc = "crash_restart"
    /\ \E ok \in BOOLEAN : Launch(ok)
    /\ UNCHANGED <<now, hist, use_segments, stop_event, cap, is_running, recorder_stop_event,
                   detectorVars, storeVars>>

\* newest_time over the seg_*.ts files; stale_seconds = time.time() - newest
NewestTime == Max({f.mtime : f \in segments})
Stale == now - NewestTime > StaleSeconds

\* if len(segments) < 3: continue; if stale_seconds > 15: one more restart,
\* the process is killed and waited for
MonitorStaleCheck ==
    /\ Running
    /\ monitor.pc = "stale_check"
    /\ IF Cardinality(segments) < MinStaleFiles
       THEN /\ monitor' = [monitor EXCEPT !.pc = "loop"]
            /\ Ev("stale_skipped", "monitor")
            /\ UNCHANGED ffmpeg_process
       ELSE IF Stale
       THEN /\ monitor' = [monitor EXCEPT
                              !.pc = "stale_restart",
                              !.restart_count = monitor.restart_count + 1]
            /\ ffmpeg_process' = IF ffmpeg_process = "none" THEN "none"
                                 ELSE "exited"
            /\ Ev("stale_detected", "monitor")
       ELSE /\ monitor' = [monitor EXCEPT !.pc = "loop"]
            /\ Ev("monitor", "monitor")
            /\ UNCHANGED ffmpeg_process
    /\ UNCHANGED <<now, hist, use_segments, stop_event, cap, is_running, recorder_stop_event,
                   detectorVars, storeVars>>

\* time.sleep(2); try: self._start_ffmpeg() ...
MonitorStaleRestart ==
    /\ Running
    /\ monitor.pc = "stale_restart"
    /\ \E ok \in BOOLEAN : Launch(ok)
    /\ UNCHANGED <<now, hist, use_segments, stop_event, cap, is_running, recorder_stop_event,
                   detectorVars, storeVars>>

MonitorStep ==
    \/ MonitorLoop
    \/ MonitorWake
    \/ MonitorCrashRestart
    \/ MonitorStaleCheck
    \/ MonitorStaleRestart

-----------------------------------------------------------------------------
(* Shutdown: MotionDetector.stop, the end of the loop of run(), cleanup()  *)
(* and SegmentRecorder.stop(), all on the main thread                      *)

\* The signal handler: detector.stop() sets stop_event
Signal ==
    /\ Running
    /\ ~stop_event
    /\ stop_event' = TRUE
    /\ Ev("signal", "main")
    /\ UNCHANGED <<now, hist, use_segments, cap, is_running, recorder_stop_event,
                   ffmpeg_process, monitor, detectorVars, storeVars>>

\* while not self.stop_event.is_set(): ... ; self.cleanup()
LoopExit ==
    /\ Running
    /\ pc["frame"] = "idle"
    /\ stop_event
    /\ Goto("frame", "cleanup", NoLocals)
    /\ Ev("loop_exit", "frame")
    /\ UNCHANGED <<now, hist, procVars, sessionVars, motion_detection_enabled,
                   motionVars, stats, recording_lock, clips, storeVars>>

\* ret is False on a network or device feed: one more attempt is counted;
\* past max_reconnect_attempts the loop is left for cleanup()
ReadFailure ==
    LET attempts == loc["frame"].reconnect_attempts + 1
    IN  /\ Running
        /\ ~stop_event
        /\ pc["frame"] = "idle"
        /\ IF attempts > max_reconnect_attempts
           THEN /\ Goto("frame", "cleanup", NoLocals)
                /\ Ev("feed_lost", "frame")
           ELSE /\ Goto("frame", "reconnect",
                        [loc["frame"] EXCEPT !.reconnect_attempts = attempts])
                /\ Ev("read_failed", "frame")
        /\ UNCHANGED <<now, hist, procVars, sessionVars,
                       motion_detection_enabled, motionVars, stats,
                       recording_lock, clips, storeVars>>

\* time.sleep(2); self.cap.release(); if not self.connect(): continue;
\* reconnect_attempts = 0; continue.  connect() leaves a source that is
\* open, or one that did not open.
Reconnect ==
    /\ Running
    /\ pc["frame"] = "reconnect"
    /\ \E ok \in BOOLEAN :
          /\ cap' = IF ok THEN "open" ELSE "closed"
          /\ Goto("frame", "idle",
                  [loc["frame"] EXCEPT
                     !.reconnect_attempts = IF ok THEN 0 ELSE @])
          /\ Ev(IF ok THEN "reconnected" ELSE "reconnect_failed", "frame")
    /\ UNCHANGED <<now, hist, use_segments, stop_event, is_running, recorder_stop_event,
                   ffmpeg_process, monitor, sessionVars,
                   motion_detection_enabled, motionVars, stats,
                   recording_lock, clips, storeVars>>

\* cleanup: if self.is_recording: self.stop_recording()
CleanupCheck ==
    /\ Running
    /\ pc["frame"] = "cleanup"
    /\ IF is_recording
       THEN Goto("frame", "stop_enter",
                 [NoLocals EXCEPT !.ret = "cleanup_recorder"])
       ELSE Goto("frame", "cleanup_recorder", NoLocals)
    /\ Ev("cleanup_check", "frame")
    /\ UNCHANGED <<now, hist, procVars, sessionVars, motion_detection_enabled,
                   motionVars, stats, recording_lock, clips, storeVars>>

\* SegmentRecorder.stop: if not self.is_running: return;
\* self.stop_event.set(); self.is_running = False
RecorderStopEnter ==
    /\ Running
    /\ pc["frame"] = "cleanup_recorder"
    /\ IF ~is_running
       THEN /\ Goto("frame", "cleanup_release", NoLocals)
            /\ UNCHANGED <<is_running, recorder_stop_event>>
       ELSE /\ recorder_stop_event' = TRUE
            /\ is_running' = FALSE
            /\ Goto("frame", "recorder_kill", NoLocals)
    /\ Ev("recorder_stop", "frame")
    /\ UNCHANGED <<now, hist, use_segments, stop_event, cap, ffmpeg_process, monitor,
                   sessionVars, motion_detection_enabled, motionVars, stats,
                   recording_lock, clips, storeVars>>

\* 'q' and wait, kill if still alive, self.ffmpeg_process = None, and
\* _kill_existing_ffmpeg() for every capture process of the directory
RecorderStopKill ==
    /\ Running
    /\ pc["frame"] = "recorder_kill"
    /\ ffmpeg_process' = "none"
    /\ Goto("frame", "cleanup_release", NoLocals)
    /\ Ev("recorder_stopped", "frame")
    /\ UNCHANGED <<now, hist, use_segments, stop_event, cap, is_running, recorder_stop_event,
                   monitor, sessionVars, motion_detection_enabled, motionVars,
                   stats, recording_lock, clips, storeVars>>

\* if self.cap: self.cap.release(); run() returns and the process ends
CleanupRelease ==
    /\ Running
    /\ pc["frame"] = "cleanup_release"
    /\ cap' = "released"
    /\ Goto("frame", "exited", NoLocals)
    /\ Ev("cap_released", "frame")
    /\ UNCHANGED <<now, hist, use_segments, stop_event, is_running, recorder_stop_event,
                   ffmpeg_process, monitor, sessionVars,
                   motion_detection_enabled, motionVars, stats, recording_lock,
                   clips, storeVars>>

Cleanup ==
    \/ LoopExit
    \/ CleanupCheck
    \/ RecorderStopEnter
    \/ RecorderStopKill
    \/ CleanupRelease

-----------------------------------------------------------------------------
(* The health monitor with the capture process, the clock and shutdown.    *)
(* The store has been running for a while: up to MaxOldFiles segments are  *)
(* on disk, the newest of them written at StartTime, StaleSeconds ago.     *)

OldFiles(k) ==
    {[name |-> StartTime - i, mtime |-> StartTime - i,
      size |-> MinValidBytes + 1] : i \in 0..(k - 1)}

InitMonitor ==
    /\ now = StartTime + StaleSeconds
    /\ is_recording = FALSE
    /\ recording_type = NONE
    /\ motion_detection_enabled = FALSE
    /\ recording_buffer_start_time = None
    /\ recording_start_time = None
    /\ last_motion_time = 0
    /\ consecutive_motion_frames = 0
    /\ significant_motion_started = FALSE
    /\ stats = [motion_videos_saved |-> 0, manual_videos_saved |-> 0]
    /\ recording_lock = "free"
    /\ cleanup_paused = FALSE
    /\ \E k \in 0..MaxOldFiles : segments = OldFiles(k)
    /\ lock = "free"
    /\ sweep = [pc |-> "check", listing |-> <<>>, to_delete |-> <<>>,
                wake |-> None]
    /\ clips = [n \in ClipNames |-> 0]
    /\ pc = [t \in Threads |-> "idle"]
    /\ loc = [t \in Threads |-> NoLocals]
    /\ ev = [op |-> "init", by |-> "init"]
    /\ hist = NoFrames
    /\ ProcInit

FfmpegWriteMonitor == Write(MinValidBytes + 1, MaxFilesMonitor)
TickMonitor == Advance(MaxTimeMonitor)

NextMonitor ==
    \/ MonitorStep
    \/ FfmpegExit
    \/ FfmpegWriteMonitor
    \/ TickMonitor
    \/ Signal
    \/ Cleanup

SpecMonitor == InitMonitor /\ [][NextMonitor]_vars

\* The monitor thread is scheduled: a step it can take is taken.
SpecMonitorLive == SpecMonitor /\ WF_vars(MonitorStep)

\* The monitor and the capture process alone, over a stretch of time longer
\* than the sleeps between a restart and the next examination.
TickRearm == Advance(MaxTimeRearm)

NextRearm ==
    \/ MonitorStep
    \/ FfmpegExit
    \/ FfmpegWriteMonitor
    \/ TickRearm

SpecRearm == InitMonitor /\ [][NextRearm]_vars

-----------------------------------------------------------------------------
(* The controller with shutdown *)

NextShutdown ==
    \/ Next
    \/ Signal
    \/ Cleanup

SpecShutdown == Init /\ [][NextShutdown]_vars

-----------------------------------------------------------------------------
(* The controller over a store that has one fresh valid segment and writes *)
(* no more: the frame loop's events against the command thread's sessions  *)

InitEvents ==
    /\ now = StartTime
    /\ is_recording = FALSE
    /\ recording_type = NONE
    /\ motion_detection_enabled \in BOOLEAN
    /\ recording_buffer_start_time = None
    /\ recording_start_time = None
    /\ last_motion_time = 0
    /\ consecutive_motion_frames = 0
    /\ significant_motion_started = FALSE
    /\ stats = [motion_videos_saved |-> 0, manual_videos_saved |-> 0]
    /\ recording_lock = "free"
    /\ cleanup_paused = FALSE
    /\ segments = {[name |-> StartTime, mtime |-> StartTime,
                    size |-> MinValidBytes + 1]}
    /\ lock = "free"
    /\ sweep = [pc |-> "check", listing |-> <<>>, to_delete |-> <<>>,
                wake |-> None]
    /\ clips = [n \in ClipNames |-> 0]
    /\ pc = [t \in Threads |-> "idle"]
    /\ loc = [t \in Threads |-> NoLocals]
    /\ ev = [op |-> "init", by |-> "init"]
    /\ hist = NoFrames
    /\ ProcInit

TickEvents == Advance(MaxTimeEvents)

NextEvents ==
    \/ FrameLoop
    \/ CommandThread
    \/ TickEvents

SpecEvents == InitEvents /\ [][NextEvents]_vars

\* STATUS: get_status reads the fields of the detector and takes no lock
get_status ==
    /\ Running
    /\ ~stop_event
    /\ pc["cmd"] = "idle"
    /\ Ev("status", "cmd")
    /\ UNCHANGED <<now, hist, procVars, detectorVars, storeVars>>

\* The controller with motion detection on and the commands RECORD_START,
\* RECORD_STOP and STATUS, long enough for a motion session to be stopped
\* and merged by the frame loop.
InitStatus == InitEvents /\ motion_detection_enabled

TickStatus == Advance(MaxTimeStatus)

NextStatus ==
    \/ FrameLoop
    \/ start_manual_recording
    \/ stop_manual_recording
    \/ StartRecording("cmd")
    \/ StopRecording("cmd")
    \/ get_status
    \/ TickStatus

SpecStatus == InitStatus /\ [][NextStatus]_vars

\* The controller over a feed that goes quiet: frames at or above the
\* extend threshold are read only up to time MotionUntil.  The clock runs
\* to MaxTimeQuiet, and past it only as far as a stop_recording that
\* sleeps needs to wake.  The frame loop keeps reading frames, the clock
\* keeps running, and a call the command thread is in goes on.
FrameQuiet ==
    \E motion_percent \in MotionPercents :
       /\ motion_percent >= extend_motion_percent => now <= MotionUntil
       /\ ProcessFrame(motion_percent)
       /\ UNCHANGED hist

FrameLoopQuiet ==
    \/ FrameQuiet
    \/ ProcessFrameEnd
    \/ StartRecording("frame")
    \/ StopRecording("frame")

TickQuiet ==
    \/ Advance(MaxTimeQuiet)
    \/ \E t \in Threads : pc[t] = "stop_sleep" /\ Advance(loc[t].wake)

CommandCalls ==
    \/ StartRecording("cmd")
    \/ StopRecording("cmd")

NextQuiet ==
    \/ FrameLoopQuiet
    \/ start_manual_recording
    \/ stop_manual_recording
    \/ CommandCalls
    \/ TickQuiet

SpecQuiet ==
    /\ InitStatus
    /\ [][NextQuiet]_vars
    /\ WF_vars(FrameLoopQuiet)
    /\ WF_vars(CommandCalls)
    /\ WF_vars(TickQuiet)

-----------------------------------------------------------------------------
(* The frame loop and RECORD_START in direct mode: the capture process     *)
(* writes one growing file; it was launched before the frame loop began,   *)
(* or relaunched by the monitor a second before the first frame            *)

InitDirect ==
    /\ now = StartTime
    /\ is_recording = FALSE
    /\ recording_type = NONE
    /\ motion_detection_enabled = TRUE
    /\ recording_buffer_start_time = None
    /\ recording_start_time = None
    /\ last_motion_time = 0
    /\ consecutive_motion_frames = 0
    /\ significant_motion_started = FALSE
    /\ stats = [motion_videos_saved |-> 0, manual_videos_saved |-> 0]
    /\ recording_lock = "free"
    /\ cleanup_paused = FALSE
    /\ \E launched \in {LaunchTime, StartTime - 1}, size \in SegSizes :
          /\ segments = {[name |-> launched, mtime |-> StartTime,
                          size |-> size]}
          /\ monitor = [pc |-> "loop", restart_count |-> 0,
                        last_segment_time |-> launched]
    /\ lock = "free"
    /\ sweep = [pc |-> "check", listing |-> <<>>, to_delete |-> <<>>,
                wake |-> None]
    /\ clips = [n \in ClipNames |-> 0]
    /\ pc = [t \in Threads |-> "idle"]
    /\ loc = [t \in Threads |-> NoLocals]
    /\ ev = [op |-> "init", by |-> "init"]
    /\ hist = NoFrames
    /\ stop_event = FALSE
    /\ cap = "open"
    /\ is_running = TRUE
    /\ recorder_stop_event = FALSE
    /\ ffmpeg_process = "alive"
    /\ use_segments = FALSE

\* The capture process appends to direct_output_file.
WriteDirect ==
    /\ Running
    /\ ffmpeg_process = "alive"
    /\ Exists(DirectOutputFile)
    /\ FileOf(DirectOutputFile).mtime < now
    /\ segments' = {[name |-> DirectOutputFile, mtime |-> now,
                     size |-> MinValidBytes + 1]}
    /\ Ev("write", "ffmpeg")
    /\ UNCHANGED <<now, hist, procVars, detectorVars, cleanup_paused, lock,
                   sweep>>

TickDirect == Advance(MaxTimeDirect)

NextDirect ==
    \/ FrameLoop
    \/ start_manual_recording
    \/ StartRecording("cmd")
    \/ WriteDirect
    \/ TickDirect

SpecDirect == InitDirect /\ [][NextDirect]_vars

-----------------------------------------------------------------------------
(* merge_segments on its own, over every directory of up to MaxFilesMerge  *)
(* files of either size and every list of up to MaxLenMerge names, some of *)
(* them of files that are not there; the merge process exits with 0 or 1   *)
(* and leaves an output file or none                                       *)

MergeNames == 1..(MaxFilesMerge + 1)
ReturnCodes == {0, 1}

RECURSIVE Lists(_, _)
Lists(S, n) ==
    IF n = 0 THEN {<<>>}
    ELSE Lists(S, n - 1)
           \cup {Append(l, x) : l \in Lists(S, n - 1), x \in S}

InitMerge ==
    /\ now = StartTime
    /\ is_recording = FALSE
    /\ recording_type = NONE
    /\ motion_detection_enabled = FALSE
    /\ recording_buffer_start_time = None
    /\ recording_start_time = None
    /\ last_motion_time = 0
    /\ consecutive_motion_frames = 0
    /\ significant_motion_started = FALSE
    /\ stats = [motion_videos_saved |-> 0, manual_videos_saved |-> 0]
    /\ recording_lock = "free"
    /\ cleanup_paused = FALSE
    /\ \E k \in 0..MaxFilesMerge :
          \E size \in [1..k -> SegSizes] :
             segments = {[name |-> i, mtime |-> StartTime, size |-> size[i]] :
                            i \in 1..k}
    /\ lock = "free"
    /\ sweep = [pc |-> "check", listing |-> <<>>, to_delete |-> <<>>,
                wake |-> None]
    /\ clips = [n \in ClipNames |-> 0]
    /\ pc = [t \in Threads |-> "idle"]
    /\ \E segs \in Lists(MergeNames, MaxLenMerge) :
          loc = [t \in Threads |->
                   IF t = "cmd" THEN [NoLocals EXCEPT !.segs = segs]
                   ELSE NoLocals]
    /\ ev = [op |-> "init", by |-> "init"]
    /\ hist = NoFrames
    /\ ProcInit

NextMerge ==
    \E returncode \in ReturnCodes, output_exists \in BOOLEAN :
       MergeCall(returncode, output_exists)

SpecMerge == InitMerge /\ [][NextMerge]_vars

\* The concat branch of merge_segments over the same directories and lists
NextConcat ==
    \/ ConcatEnter
    \/ ConcatWrite
    \/ ConcatRun
    \/ ConcatFinally

SpecConcat == InitMerge /\ [][NextConcat]_vars

-----------------------------------------------------------------------------
(* The frame loop of run() over a feed whose reads may fail: motion        *)
(* detection is off, so the frames only move the motion state               *)

InitFeed == InitEvents /\ ~motion_detection_enabled

TickFeed == Advance(MaxTimeFeed)

FrameOk == \E motion_percent \in MotionPercents :
              ProcessFrame(motion_percent) /\ UNCHANGED hist

RunLoop ==
    \/ FrameOk
    \/ ReadFailure
    \/ Reconnect
    \/ Cleanup

NextFeed ==
    \/ RunLoop
    \/ TickFeed
    \/ Signal

\* The main thread is scheduled: a step it can take is taken.
SpecFeed == InitFeed /\ [][NextFeed]_vars /\ WF_vars(RunLoop)

-----------------------------------------------------------------------------
(* The controller over a capture process that froze before the frame loop  *)
(* began: one valid segment is on disk, old enough to fall around the      *)
(* staleness bound of stop_recording, and nothing more is written          *)

OldMtimes ==
    (StartTime - buffer_seconds - 2 * segment_duration)
        ..(StartTime - StopStaleSlack)

InitStale ==
    /\ now = StartTime
    /\ is_recording = FALSE
    /\ recording_type = NONE
    /\ motion_detection_enabled \in BOOLEAN
    /\ recording_buffer_start_time = None
    /\ recording_start_time = None
    /\ last_motion_time = 0
    /\ consecutive_motion_frames = 0
    /\ significant_motion_started = FALSE
    /\ stats = [motion_videos_saved |-> 0, manual_videos_saved |-> 0]
    /\ recording_lock = "free"
    /\ cleanup_paused = FALSE
    /\ \E mtime \in OldMtimes :
          segments = {[name |-> mtime, mtime |-> mtime,
                       size |-> MinValidBytes + 1]}
    /\ lock = "free"
    /\ sweep = [pc |-> "check", listing |-> <<>>, to_delete |-> <<>>,
                wake |-> None]
    /\ clips = [n \in ClipNames |-> 0]
    /\ pc = [t \in Threads |-> "idle"]
    /\ loc = [t \in Threads |-> NoLocals]
    /\ ev = [op |-> "init", by |-> "init"]
    /\ hist = NoFrames
    /\ ProcInit

NextStale ==
    \/ FrameLoop
    \/ CommandThread
    \/ Tick

SpecStale == InitStale /\ [][NextStale]_vars

-----------------------------------------------------------------------------
(* The frame loop beside a health monitor that has one restart left: the   *)
(* capture process has been restarted max_restarts - 1 times and has just  *)
(* exited again, its last valid segment is on disk, motion detection is on *)

InitDegraded ==
    /\ now = StartTime
    /\ is_recording = FALSE
    /\ recording_type = NONE
    /\ motion_detection_enabled = TRUE
    /\ recording_buffer_start_time = None
    /\ recording_start_time = None
    /\ last_motion_time = 0
    /\ consecutive_motion_frames = 0
    /\ significant_motion_started = FALSE
    /\ stats = [motion_videos_saved |-> 0, manual_videos_saved |-> 0]
    /\ recording_lock = "free"
    /\ cleanup_paused = FALSE
    /\ segments = {[name |-> StartTime - StopStaleSlack,
                    mtime |-> StartTime - StopStaleSlack,
                    size |-> MinValidBytes + 1]}
    /\ lock = "free"
    /\ sweep = [pc |-> "check", listing |-> <<>>, to_delete |-> <<>>,
                wake |-> None]
    /\ clips = [n \in ClipNames |-> 0]
    /\ pc = [t \in Threads |-> "idle"]
    /\ loc = [t \in Threads |-> NoLocals]
    /\ ev = [op |-> "init", by |-> "init"]
    /\ hist = NoFrames
    /\ stop_event = FALSE
    /\ cap = "open"
    /\ is_running = TRUE
    /\ recorder_stop_event = FALSE
    /\ ffmpeg_process = "exited"
    /\ monitor = [pc |-> "loop", restart_count |-> max_restarts - 1,
                  last_segment_time |-> StartTime]
    /\ use_segments = TRUE

FfmpegWriteDegraded == Write(MinValidBytes + 1, MaxFilesDegraded)
TickDegraded == Advance(MaxTimeDegraded)

NextDegraded ==
    \/ FrameLoop
    \/ MonitorLoop
    \/ MonitorWake
    \/ MonitorCrashRestart
    \/ FfmpegExit
    \/ FfmpegWriteDegraded
    \/ TickDegraded

SpecDegraded == InitDegraded /\ [][NextDegraded]_vars

-----------------------------------------------------------------------------
(* Properties *)

StartLabels == {"start_set_recording", "start_set_type", "start_pause",
                "start_set_buffer", "start_set_start"}

TailLabels == {"stop_sleep", "stop_query", "stop_expected", "stop_fresh",
               "stop_merge", "stop_finalize", "reset_recording", "reset_type",
               "reset_start", "reset_buffer", "reset_resume"}

\* Thread t has been accepted by start_recording and is writing the session.
InStart(t) == pc[t] \in StartLabels

\* Thread t runs the finalize tail of stop_recording: it has flipped
\* is_recording and has not yet returned from _reset_recording_state.
InFinalize(t) == pc[t] \in TailLabels

\* Thread t took a step.
Moved(t) == pc'[t] # pc[t]

\* C1: at most one recording session exists at any instant: start_recording
\* never accepts a session while the finalize tail of an earlier session is
\* still in progress on some thread.
C1_AtMostOneSession ==
    \A t \in Threads, u \in Threads : ~(InStart(t) /\ InFinalize(u))

\* C2: idempotence.  A stop_recording call that finds no active session
\* changes nothing (session fields, the retention switch, the saved
\* counters, the clips) and attempts no finalize; a start_recording call
\* that finds a session active leaves the session's kind and timestamps
\* as they are.
C2_Idempotent ==
    [][\A t \in Threads :
         /\ (pc[t] = "stop_enter" /\ Moved(t) /\ ~is_recording)
               => /\ UNCHANGED <<sessionVars, cleanup_paused, stats, clips,
                                 recording_lock>>
                  /\ pc'[t] = loc[t].ret
         /\ (pc[t] = "start_enter" /\ Moved(t) /\ is_recording)
               => /\ UNCHANGED <<sessionVars, cleanup_paused, recording_lock>>
                  /\ pc'[t] = loc[t].ret]_vars

\* A stop_recording call has just returned without effect, no session
\* being active.
C2_Witness ==
    /\ ev.op = "stop_noop"
    /\ ~is_recording

\* C3: while a session is active (is_recording, once start_recording has
\* finished writing it) or is being finalized, the retention sweep is
\* paused.
C3_PausedDuringSession ==
    ((is_recording /\ \A t \in Threads : ~InStart(t))
        \/ \E t \in Threads : InFinalize(t))
    => cleanup_paused

\* C4: the sweep removes no segment file in a state where retention is
\* paused.
C4_NoRemoveWhilePaused ==
    [][(\E s \in segments : s \notin segments') => ~cleanup_paused]_vars

Range(f) == {f[i] : i \in DOMAIN f}

\* The names of a listing that have at least max_segments newer names in
\* it: the oldest ones beyond the bound.
BeyondBound(listing) ==
    {n \in Range(listing) :
        Cardinality({m \in Range(listing) : m > n}) >= max_segments}

\* C5: a completed sweep has removed exactly the oldest files of its
\* listing beyond max_segments, leaves at most max_segments of the files it
\* listed, and removes nothing from a listing of max_segments or fewer.
C5_SweepKeepsNewest ==
    ev.op = "sweep_done" =>
        LET listed == Range(sweep.listing)
            left == listed \cap SegNames(segments)
        IN  /\ left = listed \ BeyondBound(sweep.listing)
            /\ Cardinality(left) <= max_segments
            /\ Len(sweep.listing) <= max_segments => left = listed
            /\ Len(sweep.listing) = max_segments + 1
                  => listed \ left = {sweep.listing[1]}

\* A sweep over max_segments + 1 files has completed: the oldest is gone
\* and max_segments remain.
C5_Witness ==
    /\ ev.op = "sweep_done"
    /\ Len(sweep.listing) = max_segments + 1
    /\ ~Exists(sweep.listing[1])
    /\ Cardinality(segments) = max_segments

\* C6: a stop_recording call that found a session active ends with the
\* session state reset and retention resumed, and does not end in an
\* error.
C6_StopEndsReset ==
    /\ ev.op # "stop_raise"
    /\ ev.op = "stop_done"
          => /\ ~is_recording
             /\ recording_type = NONE
             /\ recording_buffer_start_time = None
             /\ recording_start_time = None
             /\ ~cleanup_paused

\* A frame has just been processed: the frame history has one more entry.
FrameRead == hist' # hist

\* C7: debounce.  A frame turns the event on exactly when it is the
\* third of three consecutive significant frames (the counter then reads
\* min_motion_frames = 3); a non-significant frame puts the counter back
\* to 0 and a significant one adds 1 to it.
C7_Debounce ==
    [][FrameRead =>
         /\ (~significant_motion_started /\ significant_motion_started')
               <=> (~significant_motion_started
                      /\ \A i \in 1..3 : hist'.recent[i])
         /\ (~significant_motion_started /\ significant_motion_started')
               => consecutive_motion_frames' = 3
         /\ hist'.motion_percent < 5 => consecutive_motion_frames' = 0
         /\ hist'.motion_percent >= 5
               => consecutive_motion_frames' = consecutive_motion_frames + 1]_vars

\* The third consecutive significant frame has just made the event active.
C7_Witness ==
    /\ ev.op = "event_start"
    /\ significant_motion_started
    /\ consecutive_motion_frames = 3
    /\ \A i \in 1..3 : hist.recent[i]

\* C8: linger.  While the event is active, a frame at or above the extend
\* threshold (0.2 %) sets last_motion_time to the frame's time, below the
\* start threshold (0.5 %) without adding to the counter; and the event is
\* still active after every frame that has a frame at or above the extend
\* threshold within the preceding post_motion_seconds.
C8_Linger ==
    [][(FrameRead /\ significant_motion_started) =>
         /\ hist'.motion_percent >= 2 => last_motion_time' = hist'.time
         /\ (hist'.motion_percent >= 2 /\ hist'.motion_percent < 5)
               => consecutive_motion_frames' # consecutive_motion_frames + 1
         /\ (hist'.any_time # None
               /\ hist'.time - hist'.any_time <= post_motion_seconds)
               => significant_motion_started']_vars

\* A MOTION session is still running more than post_motion_seconds after it
\* started, a frame between the two thresholds having just refreshed
\* last_motion_time.
C8_Witness ==
    /\ significant_motion_started
    /\ hist.motion_percent >= 2
    /\ hist.motion_percent < 5
    /\ hist.time = now
    /\ last_motion_time = now
    /\ consecutive_motion_frames = 0
    /\ is_recording
    /\ recording_type = MOTION
    /\ recording_start_time # None
    /\ now - recording_start_time > post_motion_seconds
    /\ pc["frame"] = "idle"

\* C9: post-roll end.  A frame processed with the event active and more
\* than post_motion_seconds since the last frame at or above the extend
\* threshold turns the event off and, when a MOTION session is active,
\* calls stop_recording; with post_motion_seconds or less elapsed the event
\* stays on and nothing is stopped; stop_recording is called from the frame
\* loop only this way, and a MANUAL session stays active.
C9_PostRollEnd ==
    [][/\ (FrameRead /\ significant_motion_started) =>
            LET elapsed == hist'.time - hist'.any_time
            IN  /\ elapsed > post_motion_seconds
                      => /\ ~significant_motion_started'
                         /\ (is_recording /\ recording_type = MOTION)
                               => pc'["frame"] = "stop_enter"
                /\ elapsed <= post_motion_seconds
                      => /\ significant_motion_started'
                         /\ pc'["frame"] # "stop_enter"
       /\ (pc["frame"] # "stop_enter" /\ pc'["frame"] = "stop_enter")
             => /\ is_recording
                /\ recording_type = MOTION
                /\ significant_motion_started
                /\ ~significant_motion_started'
                /\ now - last_motion_time' > post_motion_seconds
       /\ (is_recording /\ recording_type = MANUAL)
             => /\ is_recording'
                /\ pc'["frame"] # "stop_enter"]_vars

\* The frame loop has just ended the event and called stop_recording on a
\* MOTION session, more than post_motion_seconds after the last motion.
C9_Witness ==
    /\ ev.op = "post_roll_stop"
    /\ pc["frame"] = "stop_enter"
    /\ ~significant_motion_started
    /\ is_recording
    /\ recording_type = MOTION
    /\ now - last_motion_time > post_motion_seconds

\* C10: pre-roll.  start_recording, accepting a session at time T, writes
\* recording_start_time = T and recording_buffer_start_time = T - 5 for a
\* MOTION session, T for a MANUAL one.
C10_PreRoll ==
    [][\A t \in Threads :
         /\ (pc[t] = "start_enter" /\ pc'[t] = "start_set_recording")
               => loc'[t].current_time = now
         /\ (pc[t] = "start_set_buffer" /\ Moved(t))
               => recording_buffer_start_time' =
                     IF loc[t].rec_type = MOTION
                     THEN loc[t].current_time - 5
                     ELSE loc[t].current_time
         /\ (pc[t] = "start_set_start" /\ Moved(t))
               => recording_start_time' = loc[t].current_time]_vars

\* start_recording has just accepted a MOTION session: the buffer starts 5
\* seconds before the start time.
C10_Witness ==
    /\ ev.op = "start_done"
    /\ is_recording
    /\ recording_type = MOTION
    /\ recording_start_time = now
    /\ recording_buffer_start_time = recording_start_time - 5

\* The mtime of the file of a name, for the files on disk.
MtimeOf(n) == (CHOOSE s \in segments : s.name = n).mtime

\* C11: segment selection.  get_segments_in_time_range(t0, t1) returns
\* exactly the files on disk whose mtime lies in [t0 - 2, t1 + 2] (two
\* segment durations of 1 s) and whose size is above 1000 bytes, each once,
\* in ascending order of mtime.
C11_SegmentSelection ==
    ev.op = "query" =>
        LET res == loc["cmd"].segs
            t0 == loc["cmd"].start_time
            t1 == loc["cmd"].end_time
        IN  /\ {res[i] : i \in 1..Len(res)}
                  = {s.name : s \in {x \in segments :
                                        /\ x.mtime >= t0 - 2
                                        /\ x.mtime <= t1 + 2
                                        /\ x.size > 1000}}
            /\ \A i, j \in 1..Len(res) : i # j => res[i] # res[j]
            /\ \A i, j \in 1..Len(res) :
                  i < j => MtimeOf(res[i]) <= MtimeOf(res[j])

\* A query has returned two files in mtime order against their name order,
\* leaving out a file at the size floor inside the range.
C11_Witness ==
    /\ ev.op = "query"
    /\ Len(loc["cmd"].segs) = 2
    /\ loc["cmd"].segs[1] > loc["cmd"].segs[2]
    /\ MtimeOf(loc["cmd"].segs[1]) < MtimeOf(loc["cmd"].segs[2])
    /\ \E s \in segments :
          /\ s.size = 1000
          /\ s.mtime = loc["cmd"].start_time

\* C12: start_recording called with no session active is rejected when the
\* directory has no segment file or its newest segment is 10 s old or
\* older, and the rejected start leaves is_recording false, the kind NONE,
\* both timestamps unset and retention not paused.
C12_StaleStartRejected ==
    [][\A t \in Threads :
         (/\ pc[t] = "start_enter"
          /\ Moved(t)
          /\ ~is_recording
          /\ \/ segments = {}
             \/ \A s \in segments : now - s.mtime >= 10)
         => /\ pc'[t] = loc[t].ret
            /\ ~is_recording'
            /\ recording_type' = NONE
            /\ recording_buffer_start_time' = None
            /\ recording_start_time' = None
            /\ ~cleanup_paused'
            /\ recording_lock' = "free"]_vars

\* A start has just been rejected with the newest segment exactly 10 s old.
C12_Witness ==
    /\ ev.op = "start_reject_stale"
    /\ \E s \in segments : now - s.mtime = 10
    /\ ~is_recording
    /\ recording_type = NONE
    /\ ~cleanup_paused
    /\ pc["cmd"] = "idle"

\* C13: conflicting commands are no-ops.  A refused RECORD_START or
\* RECORD_STOP changes nothing; RECORD_START goes on to start_recording
\* only with no session active, RECORD_STOP goes on to stop_recording only
\* with a MANUAL session active; and while a MANUAL session is active the
\* frame loop enters neither start_recording nor stop_recording, a start
\* it had already entered being turned away without effect.
C13_ConflictingCommands ==
    [][/\ ev'.op \in {"manual_start_refused", "manual_stop_refused"}
             => UNCHANGED <<sessionVars, cleanup_paused, stats, clips,
                            recording_lock, pc, loc>>
       /\ ev'.op = "manual_start_refused" => is_recording
       /\ ev'.op = "manual_stop_refused"
             => (~is_recording \/ recording_type # MANUAL)
       /\ (pc["cmd"] = "idle" /\ pc'["cmd"] = "start_enter")
             => ~is_recording
       /\ (pc["cmd"] = "idle" /\ pc'["cmd"] = "stop_enter")
             => (is_recording /\ recording_type = MANUAL)
       /\ (pc["frame"] = "idle" /\ is_recording /\ recording_type = MANUAL)
             => pc'["frame"] = "idle"
       /\ (pc["frame"] = "start_enter" /\ Moved("frame") /\ is_recording)
             => /\ UNCHANGED <<sessionVars, cleanup_paused>>
                /\ pc'["frame"] = loc["frame"].ret]_vars

\* RECORD_STOP has just been refused with a MOTION session active, which
\* goes on.
C13_Witness ==
    /\ ev.op = "manual_stop_refused"
    /\ is_recording
    /\ recording_type = MOTION
    /\ cleanup_paused
    /\ pc["cmd"] = "idle"

\* C14: MOTION_OFF sets auto-detect off and, finding a MOTION session
\* active, calls stop_recording, which takes the session into its finalize
\* path; finding a MANUAL session active it returns and leaves the session
\* as it is.  MOTION_ON sets auto-detect on and changes neither the
\* session nor the position of any thread.
C14_DisableStopsMotionOnly ==
    [][/\ (pc["cmd"] = "idle" /\ pc'["cmd"] = "disable_check")
             => /\ ~motion_detection_enabled'
                /\ UNCHANGED <<sessionVars, cleanup_paused>>
       /\ (pc["cmd"] = "disable_check" /\ Moved("cmd"))
             => /\ ~motion_detection_enabled'
                /\ UNCHANGED <<sessionVars, cleanup_paused>>
                /\ (is_recording /\ recording_type = MOTION)
                      => pc'["cmd"] = "stop_enter"
                /\ (is_recording /\ recording_type = MANUAL)
                      => pc'["cmd"] = "idle"
                /\ ~is_recording => pc'["cmd"] = "idle"
       /\ (ev.op = "disable_stop" /\ Moved("cmd") /\ is_recording)
             => pc'["cmd"] = "stop_flip"
       /\ (~motion_detection_enabled /\ motion_detection_enabled')
             => UNCHANGED <<sessionVars, cleanup_paused, pc, loc, stats,
                            clips>>]_vars

\* MOTION_OFF, having found a MOTION session active, has taken it into the
\* finalize path of stop_recording with auto-detect off.
C14_Witness ==
    /\ ~motion_detection_enabled
    /\ pc["cmd"] = "stop_sleep"
    /\ loc["cmd"].was = MOTION
    /\ ~is_recording
    /\ cleanup_paused

ResetLabels == {"reset_recording", "reset_type", "reset_start",
                "reset_buffer", "reset_resume"}

\* C15: when the segment query of stop_recording has returned no segment,
\* the call goes straight to the reset: it attempts no merge, creates no
\* clip, counts no saved video, and returns with the session state reset
\* and retention resumed.
C15_NoSegmentsAbandons ==
    [][\A t \in Threads :
         /\ (pc[t] = "stop_expected" /\ Moved(t) /\ loc[t].segs = <<>>)
               => /\ pc'[t] = "reset_recording"
                  /\ UNCHANGED <<clips, stats>>
         /\ (pc[t] \in ResetLabels /\ loc[t].segs = <<>>)
               => /\ UNCHANGED <<clips, stats>>
                  /\ pc'[t] \in ResetLabels \cup {loc[t].ret}
         /\ (pc[t] = "reset_resume" /\ Moved(t) /\ loc[t].segs = <<>>)
               => /\ pc'[t] = loc[t].ret
                  /\ ~is_recording'
                  /\ recording_type' = NONE
                  /\ recording_buffer_start_time' = None
                  /\ recording_start_time' = None
                  /\ ~cleanup_paused']_vars

\* C16: a failed merge abandons the session.  merge_segments comes back to
\* stop_recording with True or False, never with an exception; when it
\* came back False the call creates no clip, and returns with the session
\* state reset and retention resumed.
C16_MergeFailureAbandons ==
    [][\A t \in Threads :
         /\ (pc[t] = "stop_merge" /\ Moved(t))
               => /\ pc'[t] \in {"stop_finalize", "reset_recording"}
                  /\ pc'[t] = "reset_recording" => loc'[t].merge_failed
                  /\ UNCHANGED clips
         /\ (pc[t] \in ResetLabels /\ loc[t].merge_failed /\ Moved(t))
               => /\ UNCHANGED clips
                  /\ pc'[t] \in ResetLabels \cup {loc[t].ret}
         /\ (pc[t] = "reset_resume" /\ Moved(t) /\ loc[t].merge_failed)
               => /\ pc'[t] = loc[t].ret
                  /\ ~is_recording'
                  /\ recording_type' = NONE
                  /\ recording_buffer_start_time' = None
                  /\ recording_start_time' = None
                  /\ ~cleanup_paused']_vars

\* The store is running and its monitor has restarts left.
StoreRunning == Running /\ is_running /\ ~recorder_stop_event
RestartLabels == {"crash_restart", "stale_restart"}

\* The statement of C17 as written: while the store is running, a capture
\* process that has exited with fewer than max_restarts restarts made is
\* eventually running again.
C17_RelaunchedAlive ==
    (StoreRunning /\ ffmpeg_process = "exited"
        /\ monitor.restart_count < max_restarts)
      ~> (ffmpeg_process = "alive" \/ ~StoreRunning)

\* C17: crash restart with a bounded budget.  While the store is running,
\* whenever the capture process has exited and fewer than max_restarts
\* restarts have been made, the monitor eventually makes a restart: it
\* calls the launch step, which brings the process back unless the launch
\* itself fails.  Restarts are counted together whatever their cause, the
\* count never goes down, every launch is a counted restart, there are at
\* most max_restarts of them, and once the monitor has ended it launches
\* nothing.
C17_BoundedRestart ==
    /\ [][/\ monitor'.restart_count \in {monitor.restart_count,
                                         monitor.restart_count + 1}
          /\ monitor'.restart_count <= max_restarts
          /\ (monitor'.pc \in RestartLabels /\ monitor.pc \notin RestartLabels)
                => monitor'.restart_count = monitor.restart_count + 1
          /\ (ffmpeg_process' = "alive" /\ ffmpeg_process # "alive")
                => /\ monitor.pc \in RestartLabels
                   /\ ev'.op = "launch_ok"
          /\ ev'.op \in {"launch_ok", "launch_failed"}
                => /\ monitor.pc \in RestartLabels
                   /\ monitor'.pc = "loop"
          /\ (monitor.pc = "loop" /\ monitor' # monitor
                /\ monitor.restart_count = max_restarts)
                => monitor'.pc = "ended"
          /\ monitor.pc = "ended"
                => /\ monitor' = monitor
                   /\ ffmpeg_process' = "alive" => ffmpeg_process = "alive"]_vars
    /\ (StoreRunning /\ ffmpeg_process = "exited"
           /\ monitor.restart_count < max_restarts)
         ~> (ev.op \in {"launch_ok", "launch_failed"} \/ ~StoreRunning)

\* The monitor has spent its budget and given up, the store still running
\* and the capture process dead.
C17_Witness ==
    /\ ev.op = "monitor_ended"
    /\ monitor.restart_count = max_restarts
    /\ ffmpeg_process = "exited"
    /\ StoreRunning

\* C18: staleness restart.  Whenever the monitor examines a capture process
\* that is alive while the newest segment on disk is more than StaleSeconds
\* old, it counts a restart and kills the process (the relaunch follows),
\* whatever the number of segment files in the directory.
C18_StalenessRestart ==
    [][(monitor.pc = "stale_check" /\ monitor' # monitor
          /\ ffmpeg_process = "alive" /\ segments # {} /\ Stale)
         => /\ ev'.op = "stale_detected"
            /\ monitor'.pc = "stale_restart"
            /\ ffmpeg_process' = "exited"]_vars

\* C19: shutdown ordering.  Once the stop signal has ended the frame loop,
\* cleanup stops the active session through stop_recording, then stops the
\* segment recorder, then releases the frame source: the recorder is
\* stopped only from cleanup and the frame source released only after it,
\* and when the recorder is stopped no session is active and no finalize
\* tail is in progress on any thread.
C19_ShutdownOrder ==
    /\ ~is_running => pc["frame"] \in {"recorder_kill", "cleanup_release",
                                       "exited"}
    /\ cap = "released" => ~is_running /\ ffmpeg_process = "none"
    /\ ~is_running => /\ ~is_recording
                      /\ \A t \in Threads : ~InFinalize(t) /\ ~InStart(t)

\* C20: of two stop_recording calls that run concurrently against one
\* active session exactly one performs the finalize tail.  The test of
\* is_recording and its flip to False are one critical section of
\* recording_lock: a call that finds the session active takes the lock and
\* flips the flag before any other call can test it, no thread enters the
\* finalize tail except through that flip, and a call that finds the flag
\* already False returns without touching the session, the retention
\* switch, the counters or the clips.
C20_OneFinalize ==
    [][\A t \in Threads :
         /\ (pc[t] = "stop_enter" /\ Moved(t))
               => /\ recording_lock = "free"
                  /\ is_recording
                        => pc'[t] = "stop_flip" /\ recording_lock' = t
                  /\ ~is_recording
                        => /\ pc'[t] = loc[t].ret
                           /\ UNCHANGED <<sessionVars, cleanup_paused, stats,
                                          clips, recording_lock>>
         /\ pc[t] = "stop_flip"
               => /\ recording_lock = t
                  /\ \A u \in Threads \ {t} :
                        pc[u] \notin StartLabels \cup {"stop_flip"}
         /\ (pc[t] = "stop_flip" /\ Moved(t))
               => /\ pc'[t] = "stop_sleep"
                  /\ ~is_recording'
                  /\ recording_lock' = "free"
         /\ (pc'[t] \in TailLabels /\ pc[t] \notin TailLabels)
               => pc[t] = "stop_flip"]_vars

\* The frame loop's post-roll stop and the command thread's MOTION_OFF met
\* on one MOTION session: one thread is in the finalize tail, the other
\* has just returned from stop_recording without effect.
C20_Witness ==
    \E t \in Threads :
        /\ InFinalize(t)
        /\ loc[t].was = MOTION
        /\ ev.op = "stop_noop"
        /\ ev.by \in Threads \ {t}

\* C21: the frame loop calls start_recording(MOTION) exactly at a frame
\* where the event flag goes from false to true (the debounce has just
\* completed) while detection is enabled and no session is active.  At no
\* other frame, and at no frame of an event that is already active, does
\* it call start_recording, whatever the command thread has done in the
\* meantime; and the event flag rises only at a frame that completes a
\* debounce.
C21_MotionStartAtEventStart ==
    [][/\ (pc'["frame"] = "start_enter" /\ pc["frame"] # "start_enter")
            => /\ pc["frame"] = "idle"
               /\ ~significant_motion_started
               /\ significant_motion_started'
               /\ motion_detection_enabled
               /\ ~is_recording
               /\ loc'["frame"].rec_type = MOTION
       /\ (~significant_motion_started /\ significant_motion_started')
            => /\ pc["frame"] = "idle"
               /\ consecutive_motion_frames' >= min_motion_frames
               /\ last_motion_time' = now
               /\ (motion_detection_enabled /\ ~is_recording)
                     => pc'["frame"] = "start_enter"
       /\ (pc["frame"] = "idle" /\ significant_motion_started)
            => pc'["frame"] # "start_enter"]_vars

\* A Manual session has been finalized and detection is enabled; the event
\* that was active has ended, a new debounce has completed later and the
\* frame loop calls start_recording(MOTION).
C21_Witness ==
    /\ pc["frame"] = "start_enter"
    /\ loc["frame"].rec_type = MOTION
    /\ stats.manual_videos_saved = 1
    /\ last_motion_time > StartTime + post_motion_seconds

\* Thread t is in the reset that follows the staleness check: segments
\* were returned, and no merge was made or attempted.
StaleAbandoned(t) ==
    /\ pc[t] \in ResetLabels
    /\ loc[t].segs # <<>>
    /\ ~loc[t].merged
    /\ ~loc[t].merge_failed

\* C22: at stop, when the newest returned segment is more than
\* StopStaleSlack seconds older than the session's start time the call
\* goes to the reset: no merge is attempted, no clip is created, no saved
\* video is counted, and it returns with the session state reset and
\* retention resumed; when the newest segment is not that old the merge is
\* attempted.
C22_StaleAbandons ==
    [][\A t \in Threads :
         /\ (pc[t] = "stop_fresh" /\ Moved(t)
               /\ ~NewestSegmentRaises(loc[t].segs)
               /\ recording_start_time # None)
               => IF NewestSegmentTime(loc[t].segs)
                        < recording_start_time - StopStaleSlack
                  THEN /\ pc'[t] = "reset_recording"
                       /\ UNCHANGED <<clips, stats>>
                  ELSE pc'[t] = "stop_merge"
         /\ (StaleAbandoned(t) /\ Moved(t))
               => /\ UNCHANGED <<clips, stats>>
                  /\ pc'[t] \in ResetLabels \cup {loc[t].ret}
         /\ (StaleAbandoned(t) /\ pc[t] = "reset_resume" /\ Moved(t))
               => /\ pc'[t] = loc[t].ret
                  /\ ~is_recording'
                  /\ recording_type' = NONE
                  /\ recording_buffer_start_time' = None
                  /\ recording_start_time' = None
                  /\ ~cleanup_paused']_vars

\* Thread t is in the reset that follows a merged clip kept with the given
\* outcome of the probe and the rename.
Kept(t, outcome) == pc[t] \in ResetLabels /\ loc[t].kept = outcome

\* C23: when the merge succeeded and the duration was probed but the
\* rename to the name with the duration fails, the merged clip stays under
\* its temporary name (one more _temp clip of the session's kind, which
\* the rest of the call does not remove), and the call returns with the
\* session state reset and retention resumed.
C23_RenameFailureKeepsTemp ==
    [][\A t \in Threads :
         /\ (pc[t] = "stop_finalize" /\ Moved(t)
               /\ loc'[t].kept = "rename_failed")
               => /\ clips'[<<Prefix(loc[t].was), "temp">>]
                        = clips[<<Prefix(loc[t].was), "temp">>] + 1
                  /\ pc'[t] = "reset_recording"
         /\ (Kept(t, "rename_failed") /\ Moved(t))
               => /\ UNCHANGED clips
                  /\ pc'[t] \in ResetLabels \cup {loc[t].ret}
         /\ (Kept(t, "rename_failed") /\ pc[t] = "reset_resume" /\ Moved(t))
               => /\ pc'[t] = loc[t].ret
                  /\ ~is_recording'
                  /\ recording_type' = NONE
                  /\ recording_buffer_start_time' = None
                  /\ recording_start_time' = None
                  /\ ~cleanup_paused']_vars

\* C24: when the merge succeeded but get_video_duration returned 0.0 (its
\* answer to every probe error), the clip stays under the name without a
\* duration, the _temp name; the file is not removed, and the call returns
\* with the session state reset and retention resumed.
C24_ProbeFailureKeepsClip ==
    [][\A t \in Threads :
         /\ (pc[t] = "stop_finalize" /\ Moved(t)
               /\ loc'[t].kept = "probe_failed")
               => /\ clips'[<<Prefix(loc[t].was), "temp">>]
                        = clips[<<Prefix(loc[t].was), "temp">>] + 1
                  /\ clips'[<<Prefix(loc[t].was), "duration">>]
                        = clips[<<Prefix(loc[t].was), "duration">>]
                  /\ pc'[t] = "reset_recording"
         /\ (Kept(t, "probe_failed") /\ Moved(t))
               => /\ UNCHANGED clips
                  /\ pc'[t] \in ResetLabels \cup {loc[t].ret}
         /\ (Kept(t, "probe_failed") /\ pc[t] = "reset_resume" /\ Moved(t))
               => /\ pc'[t] = loc[t].ret
                  /\ ~is_recording'
                  /\ recording_type' = NONE
                  /\ recording_buffer_start_time' = None
                  /\ recording_start_time' = None
                  /\ ~cleanup_paused']_vars

\* start() launched the capture process at LaunchTime; a later
\* last_segment_time was written by a restart of the monitor.
Relaunched == monitor.last_segment_time > LaunchTime

\* C25: re-arming of staleness after a restart.  Once the monitor has
\* relaunched the capture process, it declares staleness again only when
\* more than StaleSeconds have passed since that relaunch.  Examinations
\* that come sooner after the relaunch than the monitor's two sleeps
\* (StartupSleep after the launch, MonitorSleep at the head of the loop)
\* are left out, since the monitor cannot make them.
C25_RearmedFromRestart ==
    [][(ev'.op = "stale_detected" /\ Relaunched
          /\ now - monitor.last_segment_time >= StartupSleep + MonitorSleep)
          => now - monitor.last_segment_time > StaleSeconds]_vars

\* C26: the session lock covers only the writes of the session state.  A
\* thread holds recording_lock only between the acceptance of a start and
\* the end of its writes, or at the flip of stop_recording; a thread in
\* the tail of stop_recording (the drain wait, the segment query, the
\* merge, the probe and rename, the reset) does not hold it; and a STATUS
\* command on the idle command thread can always complete, whoever holds
\* the lock and whatever the frame loop is merging.
C26_LockOnlyForState ==
    /\ \A t \in Threads :
          /\ recording_lock = t => pc[t] \in StartLabels \cup {"stop_flip"}
          /\ pc[t] \in TailLabels => recording_lock # t
    /\ (Running /\ ~stop_event /\ pc["cmd"] = "idle") => ENABLED get_status

\* A STATUS command has just completed while the frame loop is about to
\* run the merge of the session it stopped.
C26_Witness ==
    /\ ev.op = "status"
    /\ pc["frame"] = "stop_merge"
    /\ loc["frame"].segs # <<>>

\* C27: bounded reconnection.  If from some point on no frame is read
\* successfully, the frame loop is left and cleanup runs to its end: the
\* frame source is released.
C27_BoundedReconnect ==
    (<>[][~FrameOk]_vars) => <>(cap = "released")

\* The monitor has given up, the capture process is dead, and the newest
\* segment is at least StartMaxAge old.
Degraded ==
    /\ monitor.pc = "ended"
    /\ ffmpeg_process # "alive"
    /\ \A f \in segments : now - f.mtime >= StartMaxAge

\* No session exists and no thread is starting or finishing one.
NoSession ==
    /\ ~is_recording
    /\ \A t \in Threads :
          pc[t] \notin StartLabels \cup TailLabels \cup {"stop_flip"}

\* C28: degraded operation.  Once the health monitor has given up, the
\* capture process is dead and the newest segment is at least StartMaxAge
\* old, this stays so (nothing brings the process back, nothing is
\* written), the frame loop goes on (it can process the next frame whenever
\* it is between frames, and it never ends), every call of start_recording
\* returns without accepting, and from a state without a session no
\* session begins and no clip is produced.
C28_DegradedKeepsAnalysing ==
    /\ [](Degraded => /\ Running
                      /\ ~stop_event
                      /\ pc["frame"] = "idle" => ENABLED FrameOk)
    /\ [][Degraded =>
            /\ Degraded'
            /\ \A t \in Threads :
                  (pc[t] = "start_enter" /\ Moved(t))
                     => /\ pc'[t] = loc[t].ret
                        /\ ev'.op \in {"start_reject_stale",
                                       "start_reject_active"}
                        /\ UNCHANGED <<sessionVars, recording_lock>>
            /\ NoSession => (NoSession' /\ UNCHANGED <<clips, stats>>)]_vars

\* In degraded operation the frame loop has processed the frames of a new
\* motion event and its start_recording has just been rejected.
C28_Witness ==
    /\ Degraded
    /\ NoSession
    /\ significant_motion_started
    /\ ev = [op |-> "start_reject_stale", by |-> "frame"]

\* C29: single-growing-file mode.  The segment query of stop_recording
\* returns the one file when it exists and is larger than MinValidBytes,
\* and nothing otherwise; the pair handed to the merge is
\* (max(0, buffer start - launch time), end time - buffer start), the
\* buffer start being that of the session being stopped, and neither value
\* is negative.
C29_DirectTimeRange ==
    [][\A t \in Threads :
         /\ (pc[t] = "stop_query" /\ Moved(t))
               => loc'[t].segs =
                     IF \E f \in segments : f.size > MinValidBytes
                     THEN <<DirectOutputFile>> ELSE <<>>
         /\ (pc[t] = "stop_merge" /\ Moved(t))
               => /\ loc'[t].time_range # <<>>
                  /\ loc'[t].time_range[1] >= 0
                  /\ loc'[t].time_range[2] >= 0
                  /\ loc'[t].time_range[2]
                        = loc[t].end_time - recording_buffer_start_time
                  /\ loc'[t].time_range[1]
                        = Max({0, recording_buffer_start_time
                                    - monitor.last_segment_time})]_vars

\* The name n is that of a file on disk larger than 1000 bytes.
Usable(n) == \E s \in segments : s.name = n /\ s.size > 1000

\* The positions of list whose file is usable, and the k-th of them.
UsableAt(list) == {i \in 1..Len(list) : Usable(list[i])}
KthUsable(list, k) ==
    CHOOSE i \in UsableAt(list) :
       Cardinality({j \in UsableAt(list) : j <= i}) = k

\* C30: merge_segments.  The merge process is run exactly when the list
\* holds a usable file (one that exists and is larger than 1000 bytes); it
\* is then given the usable entries of the list, all of them and in the
\* order of the list, whether or not other entries were left out; without
\* a usable entry the call returns False; and the call returns True only
\* if the merge process has run, has exited with 0, and the output file
\* exists.
C30_MergeFilters ==
    ev.op = "merge_call" =>
        LET m == loc["cmd"].merge
            list == loc["cmd"].segs
        IN  /\ m.invoked <=> UsableAt(list) # {}
            /\ ~m.invoked => ~m.result
            /\ m.invoked
                  => /\ Len(m.inputs) = Cardinality(UsableAt(list))
                     /\ \A k \in 1..Len(m.inputs) :
                           m.inputs[k] = list[KthUsable(list, k)]
            /\ m.result
                  => m.invoked /\ m.returncode = 0 /\ m.output_exists

\* A merge has succeeded over two usable files given in descending name
\* order, an unusable entry between them having been left out.
C30_Witness ==
    /\ ev.op = "merge_call"
    /\ loc["cmd"].merge.result
    /\ Len(loc["cmd"].segs) = 3
    /\ ~Usable(loc["cmd"].segs[2])
    /\ loc["cmd"].merge.inputs = <<2, 1>>

\* C31: merge_segments, concat branch.  Whenever the call has returned,
\* the list file output_path + ".concat.txt" is not on disk: whether the
\* merge succeeded, the merge process failed or left no output, the run
\* timed out or raised, or writing the list raised before or after the file
\* was created.
C31_ListFileRemoved ==
    ev.op = "merge_returned"
        => /\ loc["cmd"].list_file = "absent"
           /\ loc["cmd"].merge_exit
                 \in {"success", "failed", "timeout", "run_error",
                      "open_error", "write_error"}

\* The call has returned after a run that timed out, the list having been
\* written.
C31_Witness ==
    /\ ev.op = "merge_returned"
    /\ loc["cmd"].merge_exit = "timeout"
    /\ Len(ValidSegments(loc["cmd"].segs)) = 2

\* Thread t holds a listing, taken by glob or returned by the segment
\* query, of which a file has since been removed, and is about to stat it.
ListedFileGone(t) ==
    /\ pc[t] \in {"start_fresh_stat", "stop_fresh"}
    /\ NewestSegmentRaises(loc[t].segs)

\* C32: a segment file that disappears between a listing and the stat that
\* follows never surfaces as an error: when start_recording's freshness
\* check or stop_recording's newest-segment check goes on over a listing
\* of which a file is gone, the call does not end in an exception.
C32_ListingTolerant ==
    [][\A t \in Threads :
          (ListedFileGone(t) /\ pc'[t] # pc[t])
             => ev'.op \notin {"start_raise", "stop_raise"}]_vars

\* The clips of a kind on disk, under either name.
ClipsSaved(prefix) == clips[<<prefix, "duration">>] + clips[<<prefix, "temp">>]

\* No stop_recording call is between its saved-counter step and its end.
NoStopInFlight ==
    \A t \in Threads :
       pc[t] \notin ({"stop_merge", "stop_finalize"} \cup ResetLabels)

\* C33: the cumulative clips-saved counter of a kind counts the clips of
\* that kind that were saved: whenever no stop_recording call is under
\* way, motion_videos_saved is the number of bird clips produced and
\* manual_videos_saved the number of manual clips produced (a session
\* whose merge failed adds nothing to either).
C33_SavedCountsClips ==
    NoStopInFlight
       => /\ stats.motion_videos_saved = ClipsSaved("bird")
          /\ stats.manual_videos_saved = ClipsSaved("manual")

\* The frame loop stands between two process_frame calls.
FrameBoundary == pc["frame"] = "idle"

\* C34: at every frame boundary an active MOTION session implies that the
\* motion event is active (significant_motion_started).
C34_MotionSessionInEvent ==
    FrameBoundary
       => (is_recording /\ recording_type = MOTION
              => significant_motion_started)

\* The frame loop's start_recording(MOTION) has just returned with the
\* session accepted and in force.
MotionSessionStarted ==
    /\ ev = [op |-> "start_done", by |-> "frame"]
    /\ is_recording
    /\ recording_type = MOTION

\* C35: every MOTION session eventually ends.  Over a feed on which, from
\* some frame on, no frame reaches the extend threshold, and with frames
\* still being processed, a MOTION session the frame loop has started is
\* followed by a state in which is_recording is false.
C35_MotionSessionEnds ==
    MotionSessionStarted ~> ~is_recording

\* C36: a session accepted by start_recording stays active until a
\* stop_recording call stops it: is_recording goes from true to false only
\* in the locked section of stop_recording, and while a session is active
\* no step of _reset_recording_state changes recording_type or the session
\* timestamps (the reset at work would be that of an earlier session).
C36_SessionOutlivesOldTail ==
    [][/\ (is_recording /\ ~is_recording')
             => \E t \in Threads :
                   pc[t] = "stop_flip" /\ pc'[t] = "stop_sleep"
       /\ is_recording
             => \A t \in Threads :
                   (pc[t] \in ResetLabels /\ pc'[t] # pc[t])
                      => UNCHANGED <<recording_type,
                                     recording_buffer_start_time,
                                     recording_start_time>>]_vars

\* C37: the tail of stop_recording uses the timestamps of the session it
\* is stopping.  From the locked flip of is_recording to the segment query
\* recording_buffer_start_time keeps its value, and from the flip to the
\* freshness check recording_start_time keeps its value: neither is unset
\* or overwritten by another session.
C37_TailUsesOwnTimestamps ==
    [][\A t \in Threads :
          /\ pc[t] \in {"stop_sleep", "stop_query"}
                => UNCHANGED recording_buffer_start_time
          /\ pc[t] \in {"stop_sleep", "stop_query", "stop_expected",
                        "stop_fresh"}
                => UNCHANGED recording_start_time]_vars

\* SegmentRecorder.stop() has run to its end.
RecorderStopReturned ==
    /\ pc["frame"] \in {"cleanup_release", "exited"}
    /\ recorder_stop_event
    /\ ~is_running

\* C38: after SegmentRecorder.stop() has returned the store launches no
\* capture process and none is left running: the monitor does not
\* relaunch after it has seen the process gone, whatever the interleaving
\* of stop() with its loop.
C38_NoLaunchAfterStop ==
    RecorderStopReturned
       => /\ ffmpeg_process # "alive"
          /\ ev.op # "launch_ok"

====
